---- MODULE Spec2Model ----
(***************************************************************************)
(* Tritium: Halo cache-file codec and tag-array operations.                *)
(*                                                                         *)
(* Byte buffers are sequences of 0..255; a byte offset o of the source is  *)
(* element o+1 of the sequence.  A 32-bit little-endian word read from a   *)
(* buffer is kept as its four bytes (TLC integers are 32-bit signed, so    *)
(* 0xFFFFFFFF and the salted tag identities do not fit in one); it is      *)
(* turned into a number only where the source computes with it and only    *)
(* when its top bit is clear.                                              *)
(***************************************************************************)
EXTENDS Integers, Sequences, FiniteSets, TLC

VARIABLES tags, principal_tag, origin, last, status, steps,
          cache_file, map, pc, hist

vars == <<tags, principal_tag, origin, last, status, steps,
          cache_file, map, pc, hist>>

arr_vars == <<tags, principal_tag, origin, last, status, steps>>
map_vars == <<cache_file, map, pc, hist>>

-----------------------------------------------------------------------------
(* Option<T> *)
Some(x) == [some |-> TRUE, val |-> x]
NoneSeq == [some |-> FALSE, val |-> <<>>]
NoneNat == [some |-> FALSE, val |-> 0]

Min(S) == CHOOSE x \in S : \A y \in S : x <= y

(* byteorder::LittleEndian *)
le32(n) == <<n % 256, (n \div 256) % 256, (n \div 65536) % 256, (n \div 16777216) % 256>>
word(d, o) == <<d[o + 1], d[o + 2], d[o + 3], d[o + 4]>>
can_read(d, o) == o + 4 <= Len(d)
small(w) == w[4] < 128
num(w) == w[1] + 256 * w[2] + 65536 * w[3] + 16777216 * w[4]
lo16(w) == w[1] + 256 * w[2]
write_u32(d, o, w) ==
    [k \in 1 .. Len(d) |-> IF k > o /\ k <= o + 4 THEN w[k - o] ELSE d[k]]

ZERO32 == <<0, 0, 0, 0>>
NULL32 == <<255, 255, 255, 255>>

(* The usize 0xFFFFFFFF that remove stores in a reference's tag_index. *)
NULL_INDEX == -1

(* Tag classes (FourCC), as the little-endian bytes of the source's u32. *)
BITM == le32(\H6269746D)
SND  == le32(\H736E6421)
OBJE == le32(\H6F626A65)
SBSP == le32(\H73627370)
SCNR == le32(\H73636E72)
EFFE == le32(\H65666665)
ANTR == le32(\H616E7472)
JPT  == le32(\H6A707421)
USTR == le32(\H75737472)
MATG == le32(\H6D617467)
TAGC == le32(\H74616763)
MOD2 == le32(\H6D6F6432)

-----------------------------------------------------------------------------
(* faulty variant of tag_index_to_tag_id: 0xFFFFFFFF is an index like any
   other *)
tag_index_to_tag_id_no_null(index) ==
    LET tag_index == index % 65536
        secondary_index == (index + \HE174) % 65536
    IN  <<tag_index % 256, tag_index \div 256,
          secondary_index % 256, secondary_index \div 256>>

(* tag/tag_array.rs: tag_index_to_tag_id *)
tag_index_to_tag_id(index) ==
    IF index = NULL_INDEX THEN NULL32
    ELSE LET tag_index == index % 65536
             secondary_index == (index + \HE174) % 65536
         IN  <<tag_index % 256, tag_index \div 256,
               secondary_index % 256, secondary_index \div 256>>

-----------------------------------------------------------------------------
(* tag/mod.rs: Tag *)
Tag(path, classes, data, asset_data, implicit, resource_index, memory_address) ==
    [tag_path |-> path, tag_class |-> classes, data |-> data,
     asset_data |-> asset_data, implicit |-> implicit,
     resource_index |-> resource_index, memory_address |-> memory_address]

(* faulty variant of memory_address_from_offset: the address one past the
   end is refused *)
memory_address_from_offset_strict(tag, offset) ==
    IF Len(tag.data.val) <= offset THEN [some |-> FALSE, val |-> 0]
    ELSE [some |-> TRUE, val |-> tag.memory_address.val + offset]

(* Option<u32>; Panics (unwrap) on a tag without data or memory address are
   not reached: every tag with data carries a memory address. *)
memory_address_from_offset(tag, offset) ==
    IF Len(tag.data.val) < offset THEN NoneNat
    ELSE Some(tag.memory_address.val + offset)

(* address is a word; with its top bit set it lies above every tag, whose
   memory_address + len is below 2^31. *)
offset_from_memory_address(tag, address) ==
    IF ~small(address) THEN NoneNat
    ELSE IF tag.memory_address.val > num(address) THEN NoneNat
    ELSE LET offset == num(address) - tag.memory_address.val
         IN  IF offset > Len(tag.data.val) THEN NoneNat ELSE Some(offset)

(* Result of Tag::references: the list, or a panic (assert!, slice index). *)
OkRefs(r) == [st |-> "ok", refs |-> r]
PanicRefs == [st |-> "panic", refs |-> <<>>]

TagReference(tag_index, offset, tag_class, reference_type) ==
    [tag_index |-> tag_index, offset |-> offset, tag_class |-> tag_class,
     reference_type |-> reference_type]

(* count elements of elem bytes starting at offset off fit in a buffer of
   len bytes (the slice data[off .. off + elem * count] does not panic). *)
fits(cw, elem, off, len) ==
    small(cw) /\ num(cw) <= len /\ off + elem * num(cw) <= len

(* the closure add_predicted_resources of Tag::references *)
add_predicted_resources(tag, tag_array, offset) ==
    LET data == tag.data.val
        ident(i, ro) == word(data, ro + i * 8 + 4)
        tag_type(i, ro) == data[ro + i * 8 + 1] + 256 * data[ro + i * 8 + 2]
        cls(id) == tag_array[lo16(id) + 1].tag_class[1]
        bad(id, ty) == /\ id # NULL32
                       /\ \/ ~(lo16(id) < Len(tag_array))
                          \/ ~((ty = 0 /\ cls(id) = BITM) \/ (ty = 1 /\ cls(id) = SND))
        entry(id, off) == IF id = NULL32
                          THEN TagReference(NULL_INDEX, 0, NULL32, "TagID")
                          ELSE TagReference(lo16(id), off, cls(id), "TagID")
        list(count, ro) ==
            IF \E i \in 0 .. count - 1 : bad(ident(i, ro), tag_type(i, ro))
            THEN PanicRefs
            ELSE OkRefs(SelectSeq([k \in 1 .. count |->
                                      entry(ident(k - 1, ro), ro + (k - 1) * 8 + 4)],
                                  LAMBDA r : r.tag_index # NULL_INDEX))
        at(cw, ro) == IF ~ro.some THEN PanicRefs
                      ELSE IF ~fits(cw, 8, ro.val, Len(data)) THEN PanicRefs
                      ELSE list(num(cw), ro.val)
    IN  IF ~can_read(data, offset) THEN PanicRefs
        ELSE IF word(data, offset) = ZERO32 THEN OkRefs(<<>>)
        ELSE IF ~can_read(data, offset + 4) THEN PanicRefs
        ELSE at(word(data, offset),
                offset_from_memory_address(tag, word(data, offset + 4)))

(* BITM arm.  early is TRUE where the source returns from references
   directly, without the predicted-resource passes that follow the match. *)
bitm_references(tag) ==
    LET data == tag.data.val
        entry(id, off) == IF id = NULL32
                          THEN TagReference(NULL_INDEX, 0, NULL32, "TagID")
                          ELSE TagReference(lo16(id), off, BITM, "TagID")
        list(count, bitmaps_offset) ==
            [st |-> "ok",
             refs |-> SelectSeq(
                          [k \in 1 .. count |->
                              entry(word(data, bitmaps_offset + (k - 1) * \H30 + \H20),
                                    bitmaps_offset + (k - 1) * \H30 + \H20)],
                          LAMBDA r : r.tag_index # NULL_INDEX),
             early |-> FALSE]
        at(bitmaps_count, bo) ==
            IF ~bo.some THEN [st |-> "ok", refs |-> <<>>, early |-> TRUE]
            ELSE IF ~fits(bitmaps_count, \H30, bo.val, Len(data))
            THEN [st |-> "ok", refs |-> <<>>, early |-> TRUE]
            ELSE list(num(bitmaps_count), bo.val)
    IN  IF ~(can_read(data, \H60) /\ can_read(data, \H64))
        THEN [st |-> "panic", refs |-> <<>>, early |-> TRUE]
        ELSE at(word(data, \H60), offset_from_memory_address(tag, word(data, \H64)))

(* ANTR arm: the sounds reflexive at 0x54, 20-byte elements *)
antr_references(tag) ==
    LET data == tag.data.val
        entry(o) == TagReference(lo16(word(data, o + \HC)), o, word(data, o),
                                 "Dependency")
        list(idx, so) ==
            [st |-> "ok", refs |-> [n \in 1 .. Len(idx) |-> entry(so + idx[n] * 20)],
             early |-> FALSE]
        at(cw, so) ==
            IF ~so.some THEN [st |-> "panic", refs |-> <<>>, early |-> TRUE]
            ELSE IF ~fits(cw, 20, so.val, Len(data))
            THEN [st |-> "panic", refs |-> <<>>, early |-> TRUE]
            ELSE list(SelectSeq([k \in 1 .. num(cw) |-> k - 1],
                                LAMBDA i : word(data, so.val + i * 20 + \HC) # NULL32),
                      so.val)
    IN  IF ~can_read(data, \H54) THEN [st |-> "panic", refs |-> <<>>, early |-> TRUE]
        ELSE IF word(data, \H54) = ZERO32
        THEN [st |-> "ok", refs |-> <<>>, early |-> FALSE]
        ELSE IF ~can_read(data, \H54 + 4)
        THEN [st |-> "panic", refs |-> <<>>, early |-> TRUE]
        ELSE at(word(data, \H54), offset_from_memory_address(tag, word(data, \H54 + 4)))

(* EFFE arm, one reflexive of an event: count at ev + coff, elements of elem
   bytes, the dependency at dep in each *)
effe_block(tag, tag_array, ev, coff, elem, dep) ==
    LET data == tag.data.val
        entry(o) == TagReference(lo16(word(data, o + \HC)), o, word(data, o),
                                 "Dependency")
        list(idx, po) ==
            IF \E n \in 1 .. Len(idx) :
                   ~(lo16(word(data, po + idx[n] * elem + dep + \HC)) < Len(tag_array))
            THEN PanicRefs
            ELSE OkRefs([n \in 1 .. Len(idx) |-> entry(po + idx[n] * elem + dep)])
        at(cw, po) ==
            IF ~po.some THEN PanicRefs
            ELSE IF ~fits(cw, elem, po.val, Len(data)) THEN PanicRefs
            ELSE list(SelectSeq([k \in 1 .. num(cw) |-> k - 1],
                                LAMBDA p : word(data, po.val + p * elem + dep + \HC)
                                             # NULL32),
                      po.val)
    IN  IF word(data, ev + coff) = ZERO32 THEN OkRefs(<<>>)
        ELSE at(word(data, ev + coff),
                offset_from_memory_address(tag, word(data, ev + coff + 4)))

(* EFFE arm, the events from e on: parts (104 bytes, dependency at 0x18),
   then particles (232 bytes, dependency at 0x54) *)
RECURSIVE effe_events(_, _, _, _, _)
effe_events(tag, tag_array, event_offset, e, event_count) ==
    LET join(parts, particles, rest) ==
            IF parts.st = "panic" \/ particles.st = "panic" \/ rest.st = "panic"
            THEN PanicRefs
            ELSE OkRefs(parts.refs \o particles.refs \o rest.refs)
    IN  IF e >= event_count THEN OkRefs(<<>>)
        ELSE join(effe_block(tag, tag_array, event_offset + e * 68, \H2C, 104, \H18),
                  effe_block(tag, tag_array, event_offset + e * 68, \H38, 232, \H54),
                  effe_events(tag, tag_array, event_offset, e + 1, event_count))

effe_references(tag, tag_array) ==
    LET data == tag.data.val
        arm(r) == [st |-> r.st, refs |-> r.refs, early |-> r.st = "panic"]
        at(cw, eo) ==
            IF ~eo.some THEN PanicRefs
            ELSE IF ~fits(cw, 68, eo.val, Len(data)) THEN PanicRefs
            ELSE effe_events(tag, tag_array, eo.val, 0, num(cw))
    IN  IF ~can_read(data, \H34) THEN arm(PanicRefs)
        ELSE IF word(data, \H34) = ZERO32 THEN arm(OkRefs(<<>>))
        ELSE IF ~can_read(data, \H34 + 4) THEN arm(PanicRefs)
        ELSE arm(at(word(data, \H34),
                    offset_from_memory_address(tag, word(data, \H34 + 4))))

(* SND arm, the permutations of the range at offset range: two identities
   per 124-byte permutation, at 0x34 and 0x3C *)
snd_permutations(tag, tag_array, range) ==
    LET data == tag.data.val
        where(n, po) == po + (n \div 2) * 124 + (n % 2) * 8 + \H34
        list(idx, po) ==
            IF \E n \in 1 .. Len(idx) :
                   ~(lo16(word(data, where(idx[n], po))) < Len(tag_array))
            THEN PanicRefs
            ELSE OkRefs([n \in 1 .. Len(idx) |->
                            TagReference(lo16(word(data, where(idx[n], po))),
                                         where(idx[n], po), SND, "TagID")])
        at(cw, po) ==
            IF ~po.some THEN PanicRefs
            ELSE IF ~fits(cw, 124, po.val, Len(data)) THEN PanicRefs
            ELSE list(SelectSeq([k \in 1 .. 2 * num(cw) |-> k - 1],
                                LAMBDA n : word(data, where(n, po.val)) # NULL32),
                      po.val)
    IN  at(word(data, range + \H3C),
           offset_from_memory_address(tag, word(data, range + \H3C + 4)))

RECURSIVE snd_ranges(_, _, _, _, _)
snd_ranges(tag, tag_array, offset, i, count) ==
    LET join(r, rest) == IF r.st = "panic" \/ rest.st = "panic" THEN PanicRefs
                         ELSE OkRefs(r.refs \o rest.refs)
    IN  IF i >= count THEN OkRefs(<<>>)
        ELSE join(snd_permutations(tag, tag_array, offset + i * \H48),
                  snd_ranges(tag, tag_array, offset, i + 1, count))

(* SND arm: the promotion sound dependency at 0x70, then the pitch ranges
   reflexive at 0x98 *)
snd_references(tag, tag_array) ==
    LET data == tag.data.val
        arm(r) == [st |-> r.st, refs |-> r.refs, early |-> r.st = "panic"]
        promo == IF word(data, \H70 + \HC) # NULL32
                 THEN <<TagReference(lo16(word(data, \H70 + \HC)), \H70, SND,
                                     "Dependency")>>
                 ELSE <<>>
        join(r) == IF r.st = "panic" THEN PanicRefs ELSE OkRefs(promo \o r.refs)
        at(cw, ro) ==
            IF ~ro.some THEN PanicRefs
            ELSE IF ~fits(cw, \H48, ro.val, Len(data)) THEN PanicRefs
            ELSE join(snd_ranges(tag, tag_array, ro.val, 0, num(cw)))
    IN  IF ~can_read(data, \H70 + \HC) THEN arm(PanicRefs)
        ELSE IF /\ word(data, \H70 + \HC) # NULL32
                /\ ~(lo16(word(data, \H70 + \HC)) < Len(tag_array))
        THEN arm(PanicRefs)
        ELSE IF ~(can_read(data, \H98) /\ can_read(data, \H98 + 4)) THEN arm(PanicRefs)
        ELSE arm(at(word(data, \H98),
                    offset_from_memory_address(tag, word(data, \H98 + 4))))

(* JPT arm *)
jpt_references(tag) ==
    LET data == tag.data.val IN
    IF ~can_read(data, \H114 + \HC)
    THEN [st |-> "panic", refs |-> <<>>, early |-> TRUE]
    ELSE LET identity == word(data, \H114 + \HC) IN
         [st |-> "ok",
          refs |-> IF identity # NULL32
                   THEN <<TagReference(lo16(identity), \H114, word(data, \H114),
                                       "Dependency")>>
                   ELSE <<>>,
          early |-> FALSE]

(* "Everything else!" arm: a 16-byte window sliding by 4, by 16 on a match. *)
generic_match(data, tag_array, i) ==
    LET tag_identity == word(data, i + \HC)
        tag_index == lo16(tag_identity)
    IN  /\ ~(Len(tag_array) <= tag_index \/ tag_identity = NULL32)
        /\ tag_array[tag_index + 1].tag_class[1] = word(data, i)

(* The loop from position i: the positions it visits before its next match
   are i, i+4, ...; the next match is the least matching one of them.  *)
RECURSIVE generic_scan(_, _, _)
generic_scan(data, tag_array, i) ==
    LET hits == {j \in 0 .. (Len(data) \div 4) :
                    /\ 4 * j >= i
                    /\ ~(4 * j + 16 - 1 >= Len(data))
                    /\ generic_match(data, tag_array, 4 * j)}
    IN  IF hits = {} THEN <<>>
        ELSE LET m == 4 * Min(hits) IN
             <<TagReference(lo16(word(data, m + \HC)), m, word(data, m), "Dependency")>>
                 \o generic_scan(data, tag_array, m + 16)

generic_references(tag, tag_array) ==
    LET data == tag.data.val IN
    IF Len(data) < 16 THEN [st |-> "ok", refs |-> <<>>, early |-> TRUE]
    ELSE [st |-> "ok", refs |-> generic_scan(data, tag_array, 0), early |-> FALSE]

(* SBSP: one predicted-resources block per cluster *)
RECURSIVE cluster_references(_, _, _, _, _)
cluster_references(tag, tag_array, clusters_offset, i, clusters_count) ==
    LET join(p, rest) == IF p.st = "panic" \/ rest.st = "panic" THEN PanicRefs
                         ELSE OkRefs(p.refs \o rest.refs)
    IN  IF i >= clusters_count THEN OkRefs(<<>>)
        ELSE join(add_predicted_resources(tag, tag_array,
                                          clusters_offset + i * 104 + \H28),
                  cluster_references(tag, tag_array, clusters_offset, i + 1,
                                     clusters_count))

sbsp_references(tag, tag_array) ==
    LET data == tag.data.val
        at(clusters_count, co) ==
            IF ~co.some THEN PanicRefs
            ELSE IF ~small(clusters_count) \/ num(clusters_count) > Len(data)
            THEN PanicRefs
            ELSE cluster_references(tag, tag_array, co.val, 0, num(clusters_count))
    IN  IF ~can_read(data, \H14C) THEN PanicRefs
        ELSE IF word(data, \H14C) = ZERO32 THEN OkRefs(<<>>)
        ELSE IF ~can_read(data, \H14C + 4) THEN PanicRefs
        ELSE at(word(data, \H14C),
                offset_from_memory_address(tag, word(data, \H14C + 4)))

(* match self.tag_class.0 { ... } of Tag::references *)
class_references(tag, tag_array) ==
    LET c0 == tag.tag_class[1] IN
    CASE c0 = ANTR -> antr_references(tag)
      [] c0 = BITM -> bitm_references(tag)
      [] c0 = EFFE -> effe_references(tag, tag_array)
      [] c0 = JPT  -> jpt_references(tag)
      [] c0 = SND  -> snd_references(tag, tag_array)
      [] OTHER     -> generic_references(tag, tag_array)

(* Tag::references *)
references(tag, tag_array) ==
    LET join(first, obje, scnr, sbsp) ==
            IF obje.st = "panic" \/ scnr.st = "panic" \/ sbsp.st = "panic"
            THEN PanicRefs
            ELSE OkRefs(first.refs \o obje.refs \o scnr.refs \o sbsp.refs)
        after(first) ==
            IF first.st = "panic" THEN PanicRefs
            ELSE IF first.early THEN OkRefs(first.refs)
            ELSE join(first,
                      IF OBJE \in {tag.tag_class[1], tag.tag_class[2], tag.tag_class[3]}
                      THEN add_predicted_resources(tag, tag_array, \H170)
                      ELSE OkRefs(<<>>),
                      IF tag.tag_class[1] = SCNR
                      THEN add_predicted_resources(tag, tag_array, \HEC)
                      ELSE OkRefs(<<>>),
                      IF tag.tag_class[1] = SBSP
                      THEN sbsp_references(tag, tag_array)
                      ELSE OkRefs(<<>>))
    IN  IF ~tag.data.some THEN OkRefs(<<>>)
        ELSE after(class_references(tag, tag_array))

(* Tag::set_reference *)
(* faulty variant of set_reference: the tag keeps the identity it held *)
set_reference_keep(tag, reference) == tag

set_reference(tag, reference) ==
    LET tag_data == tag.data.val IN
    IF reference.reference_type = "TagID"
    THEN [tag EXCEPT !.data = Some(write_u32(tag_data, reference.offset,
                                             tag_index_to_tag_id(reference.tag_index)))]
    ELSE [tag EXCEPT !.data = Some(write_u32(
                                     write_u32(tag_data, reference.offset,
                                               reference.tag_class),
                                     reference.offset + \HC,
                                     tag_index_to_tag_id(reference.tag_index)))]

(* for r in refs { tag.set_reference(&r) } *)
RECURSIVE set_references(_, _, _)
set_references(tag, refs, n) ==
    IF n > Len(refs) THEN tag
    ELSE set_references(set_reference(tag, refs[n]), refs, n + 1)

-----------------------------------------------------------------------------
(* tag/mod.rs: pointers.  u32 words are compared and offset halfword by     *)
(* halfword, so that values with the top bit set stay exact.                *)

hi16(w) == w[3] + 256 * w[4]
word_ge(a, b) == hi16(a) > hi16(b) \/ (hi16(a) = hi16(b) /\ lo16(a) >= lo16(b))
pair32(h, l) == <<l % 256, l \div 256, h % 256, h \div 256>>

(* a + n and a - n for a number 0 <= n < 2^31; ovf where the u32 operation
   overflows (a panic in the build the repository's test runs in) *)
word_add(a, n) ==
    LET l == lo16(a) + (n % 65536)
        h == hi16(a) + (n \div 65536) + (l \div 65536)
    IN  [ovf |-> h >= 65536, w |-> pair32(h % 65536, l % 65536)]

word_sub(a, n) ==
    LET l == lo16(a) - (n % 65536)
        h == hi16(a) - (n \div 65536) - (IF l < 0 THEN 1 ELSE 0)
    IN  [ovf |-> h < 0, w |-> pair32((h + 65536) % 65536, (l + 65536) % 65536)]

(* Result of Tag::p_pointers: the offsets, or a panic (unwrap, slice index) *)
OkPtrs(p) == [st |-> "ok", ptrs |-> p]
PanicPtrs == [st |-> "panic", ptrs |-> <<>>]
join_ptrs(a, b) ==
    IF a.st = "panic" \/ b.st = "panic" THEN PanicPtrs ELSE OkPtrs(a.ptrs \o b.ptrs)

RECURSIVE Flatten(_)
Flatten(ss) == IF ss = <<>> THEN <<>> ELSE Head(ss) \o Flatten(Tail(ss))

(* BITM arm: the sequences reflexive at 0x54 and each sequence's sprites *)
bitm_sequences(tag) ==
    LET data == tag.data.val
        valid(o) == offset_from_memory_address(tag, word(data, o)).some
        list(count, so) ==
            IF \E i \in 0 .. count - 1 :
                   word(data, so + i * 64 + \H34) # ZERO32 /\ ~valid(so + i * 64 + \H38)
            THEN PanicPtrs
            ELSE OkPtrs(<<\H58>> \o
                        SelectSeq([k \in 1 .. count |-> (k - 1) * 64 + so + \H38],
                                  LAMBDA p : word(data, p - 4) # ZERO32))
        at(cw, so) == IF ~so.some THEN PanicPtrs
                      ELSE IF ~fits(cw, 64, so.val, Len(data)) THEN PanicPtrs
                      ELSE list(num(cw), so.val)
    IN  IF ~can_read(data, \H54) THEN PanicPtrs
        ELSE IF word(data, \H54) = ZERO32 THEN OkPtrs(<<>>)
        ELSE IF ~can_read(data, \H58) THEN PanicPtrs
        ELSE at(word(data, \H54), offset_from_memory_address(tag, word(data, \H58)))

bitm_pointers(tag) ==
    LET data == tag.data.val IN
    join_ptrs(bitm_sequences(tag),
              IF ~can_read(data, \H60) THEN PanicPtrs
              ELSE IF word(data, \H60) = ZERO32 THEN OkPtrs(<<>>)
              ELSE IF ~can_read(data, \H64) THEN PanicPtrs
              ELSE IF ~offset_from_memory_address(tag, word(data, \H64)).some
              THEN PanicPtrs
              ELSE OkPtrs(<<\H64>>))

(* EFFE arm: locations at 0x28, events at 0x34 with their parts and
   particles *)
effe_event_pointers(tag) ==
    LET data == tag.data.val
        valid(o) == offset_from_memory_address(tag, word(data, o)).some
        used(o) == word(data, o) # ZERO32
        one(o) == IF used(o) THEN <<o + 4>> ELSE <<>>
        list(count, eo) ==
            IF \E e \in 0 .. count - 1 :
                   \/ used(eo + e * 68 + \H2C) /\ ~valid(eo + e * 68 + \H2C + 4)
                   \/ used(eo + e * 68 + \H38) /\ ~valid(eo + e * 68 + \H38 + 4)
            THEN PanicPtrs
            ELSE OkPtrs(<<\H34 + 4>> \o
                        Flatten([k \in 1 .. count |->
                                    one(eo + (k - 1) * 68 + \H2C)
                                        \o one(eo + (k - 1) * 68 + \H38)]))
        at(cw, eo) == IF ~eo.some THEN PanicPtrs
                      ELSE IF ~fits(cw, 68, eo.val, Len(data)) THEN PanicPtrs
                      ELSE list(num(cw), eo.val)
    IN  IF ~can_read(data, \H34) THEN PanicPtrs
        ELSE IF word(data, \H34) = ZERO32 THEN OkPtrs(<<>>)
        ELSE IF ~can_read(data, \H34 + 4) THEN PanicPtrs
        ELSE at(word(data, \H34), offset_from_memory_address(tag, word(data, \H34 + 4)))

effe_pointers(tag) ==
    LET data == tag.data.val IN
    join_ptrs(IF ~can_read(data, \H28) THEN PanicPtrs
              ELSE IF word(data, \H28) = ZERO32 THEN OkPtrs(<<>>)
              ELSE IF ~can_read(data, \H28 + 4) THEN PanicPtrs
              ELSE IF ~offset_from_memory_address(tag, word(data, \H28 + 4)).some
              THEN PanicPtrs
              ELSE OkPtrs(<<\H28 + 4>>),
              effe_event_pointers(tag))

(* SCNR arm.  maybe_add_pointer reads the word at every offset it is given
   and keeps the offsets of the words that are not zero. *)
maybe_add_pointers(data, offs) ==
    IF \E k \in 1 .. Len(offs) : ~can_read(data, offs[k]) THEN PanicPtrs
    ELSE OkPtrs(SelectSeq(offs, LAMBDA o : word(data, o) # ZERO32))

join_all_ptrs(rs) ==
    IF \E k \in 1 .. Len(rs) : rs[k].st = "panic" THEN PanicPtrs
    ELSE OkPtrs(Flatten([k \in 1 .. Len(rs) |-> rs[k].ptrs]))

(* a block reflexive at head whose elements of elem bytes hold pointers at
   the offsets inner: skipped when its address is outside the tag *)
scnr_block(tag, head, elem, inner) ==
    LET data == tag.data.val
        offs(count, n) ==
            Flatten([k \in 1 .. count |->
                        [j \in 1 .. Len(inner) |-> n + (k - 1) * elem + inner[j]]])
                \o <<head + 4>>
        at(cw, n) ==
            IF ~n.some THEN OkPtrs(<<>>)
            ELSE IF ~small(cw) \/ num(cw) > Len(data) THEN PanicPtrs
            ELSE IF /\ num(cw) > 0
                    /\ n.val + (num(cw) - 1) * elem + inner[Len(inner)] + 4 > Len(data)
            THEN PanicPtrs
            ELSE maybe_add_pointers(data, offs(num(cw), n.val))
    IN  IF ~can_read(data, head + 4) THEN PanicPtrs
        ELSE at(word(data, head), offset_from_memory_address(tag, word(data, head + 4)))

(* encounter i of the block at n, with its squads *)
scnr_encounter(tag, n, i) ==
    LET data == tag.data.val
        b == n + i * 176
        squads(cw, m) ==
            IF ~m.some THEN OkPtrs(<<>>)
            ELSE IF ~small(cw) \/ num(cw) > Len(data) THEN PanicPtrs
            ELSE IF num(cw) > 0 /\ m.val + (num(cw) - 1) * 232 + \HD0 + 4 + 4 > Len(data)
            THEN PanicPtrs
            ELSE maybe_add_pointers(data,
                     Flatten([k \in 1 .. num(cw) |->
                                 <<m.val + (k - 1) * 232 + \HC4 + 4,
                                   m.val + (k - 1) * 232 + \HD0 + 4>>])
                         \o <<b + \H80 + 4>>)
    IN  IF b + 176 > Len(data) THEN PanicPtrs
        ELSE join_ptrs(squads(word(data, b + \H80),
                              offset_from_memory_address(tag, word(data, b + \H80 + 4))),
                       maybe_add_pointers(data, <<b + \H8C + 4, b + \H98 + 4, b + \HA4 + 4>>))

scnr_encounters(tag) ==
    LET data == tag.data.val
        at(cw, n) ==
            IF ~n.some THEN OkPtrs(<<>>)
            ELSE IF ~small(cw) \/ num(cw) > Len(data) THEN PanicPtrs
            ELSE IF n.val + num(cw) * 176 > Len(data) THEN PanicPtrs
            ELSE join_ptrs(join_all_ptrs([k \in 1 .. num(cw) |->
                                             scnr_encounter(tag, n.val, k - 1)]),
                           maybe_add_pointers(data, <<\H42C + 4>>))
    IN  IF ~can_read(data, \H42C + 4) THEN PanicPtrs
        ELSE at(word(data, \H42C),
                offset_from_memory_address(tag, word(data, \H42C + 4)))

scnr_pointers(tag) ==
    LET data == tag.data.val IN
    join_all_ptrs(<<
        maybe_add_pointers(data, <<\H30 + 4, \H40 + 4, \HEC + 4, \HF8 + 4, \H110>>),
        scnr_block(tag, \H118, 48, <<\H24 + 4>>),
        maybe_add_pointers(data,
            <<\H204 + 4, \H210 + 4, \H21C + 4, \H228 + 4, \H234 + 4, \H240 + 4,
              \H24C + 4, \H258 + 4, \H264 + 4, \H270 + 4, \H27C + 4, \H288 + 4,
              \H294 + 4, \H2A0 + 4, \H2AC + 4, \H2B8 + 4, \H2C4 + 4, \H2D0 + 4,
              \H2DC + 4, \H2E8 + 4, \H348 + 4, \H354 + 4, \H360 + 4>>),
        scnr_block(tag, \H36C, 64, <<\H38>>),
        maybe_add_pointers(data,
            <<\H378 + 4, \H384 + 4, \H390 + 4, \H39C + 4, \H3A8 + 4, \H3B4 + 4,
              \H3C0 + 4, \H420 + 4>>),
        scnr_encounters(tag),
        scnr_block(tag, \H438, 96, <<\H30 + 4, \H3C + 4>>),
        maybe_add_pointers(data, <<\H444 + 4, \H450 + 4, \H45C + 4>>),
        scnr_block(tag, \H468, 116, <<\H50 + 4, \H5C + 4>>),
        maybe_add_pointers(data,
            <<\H480, \H494, \H49C + 4, \H4A8 + 4, \H4B4 + 4, \H4E4 + 4, \H4F0 + 4,
              \H4FC + 4, \H5A4 + 4>>)>>)

(* every other class: a 12-byte window (count, address, zero) sliding by 2,
   by 12 on a match, while i < len - 12 + 2.  The positions visited before
   the next match are i, i+2, ...; at i = len - 11, which an odd length lets
   the loop reach, the third read has 3 bytes left and panics. *)
RECURSIVE heuristic_scan(_, _)
heuristic_scan(tag, i) ==
    LET data == tag.data.val
        len == Len(data)
        match(p) == /\ word(data, p) # ZERO32
                    /\ word(data, p + 8) = ZERO32
                    /\ small(word(data, p + 4))
                    /\ num(word(data, p + 4)) >= tag.memory_address.val
                    /\ num(word(data, p + 4)) < tag.memory_address.val + len
        next(p) == join_ptrs(OkPtrs(<<p + 4>>), heuristic_scan(tag, p + \HC))
        step(hits) == IF hits # {} THEN next(Min(hits))
                      ELSE IF (len - 11 - i) % 2 = 0 THEN PanicPtrs
                      ELSE OkPtrs(<<>>)
    IN  IF ~(i < len - 12 + 2) THEN OkPtrs(<<>>)
        ELSE step({p \in {i + 2 * k : k \in 0 .. ((len - 12 - i) \div 2)} : match(p)})

(* Tag::p_pointers *)
p_pointers(tag) ==
    LET c0 == tag.tag_class[1] IN
    CASE c0 = BITM -> bitm_pointers(tag)
      [] c0 = EFFE -> effe_pointers(tag)
      [] c0 = JPT  -> OkPtrs(<<>>)
      [] c0 = SCNR -> scnr_pointers(tag)
      [] OTHER     -> IF Len(tag.data.val) >= 12 THEN heuristic_scan(tag, 0)
                      ELSE OkPtrs(<<>>)

(* the loop of Tag::offset_pointers over the pointers found *)
RECURSIVE offset_loop(_, _, _, _, _, _)
offset_loop(data, pointers, n, min_memory_address, size, subtract) ==
    LET moved(r) ==
            IF r.ovf THEN [st |-> "panic", data |-> data]
            ELSE offset_loop(write_u32(data, pointers[n], r.w), pointers, n + 1,
                             min_memory_address, size, subtract)
    IN  IF n > Len(pointers) THEN [st |-> "ok", data |-> data]
        ELSE IF ~can_read(data, pointers[n]) THEN [st |-> "panic", data |-> data]
        ELSE IF word_ge(word(data, pointers[n]), le32(min_memory_address))
        THEN moved(IF subtract THEN word_sub(word(data, pointers[n]), size)
                   ELSE word_add(word(data, pointers[n]), size))
        ELSE offset_loop(data, pointers, n + 1, min_memory_address, size, subtract)

(* Tag::offset_pointers *)
offset_pointers(tag, offset, size, subtract) ==
    LET wrap(r) == [st |-> r.st, tag |-> [tag EXCEPT !.data = Some(r.data)]]
        apply(p) ==
            IF p.st = "panic" THEN [st |-> "panic", tag |-> tag]
            ELSE wrap(offset_loop(tag.data.val, p.ptrs, 1,
                                  tag.memory_address.val + offset, size, subtract))
    IN  apply(p_pointers(tag))

(* Tag::set_memory_address *)
set_memory_address(tag, new_address) ==
    LET memory_address == tag.memory_address.val
        done(r) == [st |-> r.st,
                    tag |-> [r.tag EXCEPT !.memory_address = Some(new_address)]]
    IN  IF new_address > \H7FFFFFFF - Len(tag.data.val)
        THEN [st |-> "panic", tag |-> tag]
        ELSE done(offset_pointers(tag, 0,
                                  IF new_address > memory_address
                                  THEN new_address - memory_address
                                  ELSE memory_address - new_address,
                                  ~(new_address > memory_address)))

(* faulty variant of insert_data: the bytes are spliced in and no pointer
   is adjusted *)
insert_data_no_shift(tag, offset, bytes) ==
    IF offset > Len(tag.data.val) THEN [st |-> "panic", tag |-> tag]
    ELSE [st |-> "ok",
          tag |-> [tag EXCEPT !.data = Some(SubSeq(tag.data.val, 1, offset) \o bytes
                                              \o SubSeq(tag.data.val, offset + 1,
                                                        Len(tag.data.val)))]]

(* Tag::insert_data: offset_pointers, then the splice tag_data[0..offset] ++
   data ++ tag_data[offset..], whose slices panic past the end *)
insert_data(tag, offset, bytes) ==
    LET splice(r) ==
            IF r.st = "panic" THEN [st |-> "panic", tag |-> tag]
            ELSE IF offset > Len(r.tag.data.val) THEN [st |-> "panic", tag |-> tag]
            ELSE [st |-> "ok",
                  tag |-> [r.tag EXCEPT !.data =
                              Some(SubSeq(r.tag.data.val, 1, offset) \o bytes
                                       \o SubSeq(r.tag.data.val, offset + 1,
                                                 Len(r.tag.data.val)))]]
    IN  splice(offset_pointers(tag, offset, Len(bytes), FALSE))

(* faulty variant of delete_data: the bytes are removed and no pointer is
   adjusted *)
delete_data_no_shift(tag, offset, size) ==
    IF size = 0 THEN [st |-> "ok", tag |-> tag]
    ELSE IF offset + size > Len(tag.data.val) THEN [st |-> "panic", tag |-> tag]
    ELSE [st |-> "ok",
          tag |-> [tag EXCEPT !.data = Some(SubSeq(tag.data.val, 1, offset)
                                              \o SubSeq(tag.data.val, offset + size + 1,
                                                        Len(tag.data.val)))]]

(* Tag::delete_data: offset_pointers from the end of the region, then size
   times Vec::remove(offset), which panics at or past the end *)
delete_data(tag, offset, size) ==
    LET cut(r) ==
            IF r.st = "panic" THEN [st |-> "panic", tag |-> tag]
            ELSE IF size = 0 THEN [st |-> "ok", tag |-> r.tag]
            ELSE IF offset + size > Len(r.tag.data.val)
            THEN [st |-> "panic", tag |-> tag]
            ELSE [st |-> "ok",
                  tag |-> [r.tag EXCEPT !.data =
                              Some(SubSeq(r.tag.data.val, 1, offset)
                                       \o SubSeq(r.tag.data.val, offset + size + 1,
                                                 Len(r.tag.data.val)))]]
    IN  cut(offset_pointers(tag, offset + size, size, TRUE))

-----------------------------------------------------------------------------
(* tag/tag_array.rs: TagArray.  Indices are 0-based as in the source;       *)
(* the tag with index i is tag_array[i + 1].                                *)

(* faulty variant of find_tag: never finds a tag *)
find_tag_never(tag_array, tag_path, tag_class) == NoneNat

find_tag(tag_array, tag_path, tag_class) ==
    LET hit == {i \in 0 .. Len(tag_array) - 1 :
                   /\ tag_array[i + 1].tag_path = tag_path
                   /\ tag_array[i + 1].tag_class[1] = tag_class}
    IN  IF hit = {} THEN NoneNat ELSE Some(Min(hit))

(* faulty variant of already_exists: no tag is ever taken for a duplicate *)
already_exists_never(tag_array, tag) == FALSE

already_exists(tag_array, tag) ==
    \E i \in 1 .. Len(tag_array) :
        tag_array[i].tag_class = tag.tag_class /\ tag.tag_path = tag_array[i].tag_path

(* faulty variant of remove_fix: references past the removed tag keep
   their index *)
remove_fix_no_shift(r, tag) ==
    IF r.tag_index = tag THEN [r EXCEPT !.tag_index = NULL_INDEX] ELSE r

(* TagArray::remove, the rewrite of one reference r of another tag *)
remove_fix(r, tag) ==
    IF r.tag_index > tag THEN [r EXCEPT !.tag_index = @ - 1]
    ELSE IF r.tag_index = tag THEN [r EXCEPT !.tag_index = NULL_INDEX]
    ELSE r

RECURSIVE remove_loop(_, _, _)
remove_loop(ts, tag, t) ==
    LET fix(rs) ==
            IF rs.st = "panic" THEN [st |-> "panic", tags |-> ts]
            ELSE remove_loop(
                     [ts EXCEPT ![t + 1] =
                         set_references(@, [k \in 1 .. Len(rs.refs) |->
                                               remove_fix(rs.refs[k], tag)], 1)],
                     tag, t + 1)
    IN  IF t >= Len(ts) THEN [st |-> "ok", tags |-> ts]
        ELSE IF tag = t THEN remove_loop(ts, tag, t + 1)
        ELSE fix(references(ts[t + 1], ts))

(* TagArray::remove; principal_tag is not touched by it *)
remove(ts, tag) ==
    LET take(r) ==
            IF r.st = "panic" THEN r
            ELSE [st |-> "ok",
                  tags |-> SubSeq(r.tags, 1, tag)
                               \o SubSeq(r.tags, tag + 2, Len(r.tags))]
    IN  IF ~(tag < Len(ts)) THEN [st |-> "panic", tags |-> ts]
        ELSE take(remove_loop(ts, tag, 0))

(* "ui\shell\bitmaps\background" *)
PATH_UI_BACKGROUND ==
    <<117, 105, 92, 115, 104, 101, 108, 108, 92, 98, 105, 116, 109, 97, 112, 115, 92, 98, 97, 99, 107, 103, 114, 111, 117, 110, 100>>
(* "ui\shell\bitmaps\trouble_brewing" *)
PATH_UI_TROUBLE_BREWING ==
    <<117, 105, 92, 115, 104, 101, 108, 108, 92, 98, 105, 116, 109, 97, 112, 115, 92, 116, 114, 111, 117, 98, 108, 101, 95, 98, 114, 101, 119, 105, 110, 103>>
(* "sound\sfx\ui\cursor" *)
PATH_SFX_CURSOR ==
    <<115, 111, 117, 110, 100, 92, 115, 102, 120, 92, 117, 105, 92, 99, 117, 114, 115, 111, 114>>
(* "sound\sfx\ui\forward" *)
PATH_SFX_FORWARD ==
    <<115, 111, 117, 110, 100, 92, 115, 102, 120, 92, 117, 105, 92, 102, 111, 114, 119, 97, 114, 100>>
(* "sound\sfx\ui\back" *)
PATH_SFX_BACK ==
    <<115, 111, 117, 110, 100, 92, 115, 102, 120, 92, 117, 105, 92, 98, 97, 99, 107>>
(* "ui\shell\strings\loading" *)
PATH_STR_LOADING ==
    <<117, 105, 92, 115, 104, 101, 108, 108, 92, 115, 116, 114, 105, 110, 103, 115, 92, 108, 111, 97, 100, 105, 110, 103>>
(* "ui\shell\main_menu\mp_map_list" *)
PATH_STR_MP_MAP_LIST ==
    <<117, 105, 92, 115, 104, 101, 108, 108, 92, 109, 97, 105, 110, 95, 109, 101, 110, 117, 92, 109, 112, 95, 109, 97, 112, 95, 108, 105, 115, 116>>
(* "globals\globals" *)
PATH_GLOBALS ==
    <<103, 108, 111, 98, 97, 108, 115, 92, 103, 108, 111, 98, 97, 108, 115>>

(* faulty variant of not_essential: the tagc arm is missing *)
not_essential_no_tagc(tag, is_principal_tag) ==
    LET class == tag.tag_class[1]
        path == tag.tag_path
    IN  CASE class = BITM -> path \notin {PATH_UI_BACKGROUND, PATH_UI_TROUBLE_BREWING}
          [] class = SND  -> path \notin {PATH_SFX_CURSOR, PATH_SFX_FORWARD, PATH_SFX_BACK}
          [] class = USTR -> path \notin {PATH_STR_LOADING, PATH_STR_MP_MAP_LIST}
          [] class = MATG -> path # PATH_GLOBALS
          [] OTHER        -> ~is_principal_tag

(* remove_dead_tags: the value of the match on the class; TRUE means the tag
   is not a root by class and path. *)
not_essential(tag, is_principal_tag) ==
    LET class == tag.tag_class[1]
        path == tag.tag_path
    IN  CASE class = BITM -> path \notin {PATH_UI_BACKGROUND, PATH_UI_TROUBLE_BREWING}
          [] class = SND  -> path \notin {PATH_SFX_CURSOR, PATH_SFX_FORWARD, PATH_SFX_BACK}
          [] class = USTR -> path \notin {PATH_STR_LOADING, PATH_STR_MP_MAP_LIST}
          [] class = MATG -> path # PATH_GLOBALS
          [] class = TAGC -> FALSE
          [] OTHER        -> ~is_principal_tag

is_principal(principal, i) == principal.some /\ i = principal.val

(* the tags the first loop of remove_dead_tags saves *)
is_root(ts, principal, i) ==
    ~(not_essential(ts[i + 1], is_principal(principal, i))
      /\ ~is_principal(principal, i))

RECURSIVE p_save_tag_recursive(_, _, _)
RECURSIVE save_references(_, _, _, _, _)
p_save_tag_recursive(ts, tag_index, keep_list) ==
    LET save(rs) ==
            IF rs.st = "panic" THEN [st |-> "panic", keep |-> keep_list]
            ELSE save_references(ts, tag_index, rs.refs, 1,
                                 [keep_list EXCEPT ![tag_index + 1] = TRUE])
    IN  IF ~(tag_index < Len(keep_list)) THEN [st |-> "panic", keep |-> keep_list]
        ELSE IF keep_list[tag_index + 1] THEN [st |-> "ok", keep |-> keep_list]
        ELSE save(references(ts[tag_index + 1], ts))

save_references(ts, tag_index, refs, n, keep_list) ==
    LET next(r) == IF r.st = "panic" THEN r
                   ELSE save_references(ts, tag_index, refs, n + 1, r.keep)
    IN  IF n > Len(refs) THEN [st |-> "ok", keep |-> keep_list]
        ELSE IF tag_index = refs[n].tag_index
        THEN save_references(ts, tag_index, refs, n + 1, keep_list)
        ELSE next(p_save_tag_recursive(ts, refs[n].tag_index, keep_list))

RECURSIVE mark_loop(_, _, _, _)
mark_loop(ts, principal, i, keep_list) ==
    LET next(r) == IF r.st = "panic" THEN r
                   ELSE mark_loop(ts, principal, i + 1, r.keep)
    IN  IF i >= Len(ts) THEN [st |-> "ok", keep |-> keep_list]
        ELSE IF ~is_root(ts, principal, i)
        THEN mark_loop(ts, principal, i + 1, keep_list)
        ELSE next(p_save_tag_recursive(ts, i, keep_list))

(* for i in (0..tag_count).rev(): n is i + 1 *)
RECURSIVE sweep_loop(_, _, _)
sweep_loop(ts, keep_list, n) ==
    LET next(r) == IF r.st = "panic" THEN r
                   ELSE sweep_loop(r.tags, keep_list, n - 1)
    IN  IF n = 0 THEN [st |-> "ok", tags |-> ts]
        ELSE IF keep_list[n] THEN sweep_loop(ts, keep_list, n - 1)
        ELSE next(remove(ts, n - 1))

(* TagArray::remove_dead_tags *)
remove_dead_tags(ts, principal) ==
    LET sweep(marked) == IF marked.st = "panic" THEN [st |-> "panic", tags |-> ts]
                         ELSE sweep_loop(ts, marked.keep, Len(ts))
    IN  sweep(mark_loop(ts, principal, 0, [k \in 1 .. Len(ts) |-> FALSE]))

(* TagArray::insert: the loop over the references of the copied tag *)
RECURSIVE insert_loop(_, _, _, _, _)
insert_loop(ts, origin_tag_array, tag, refs, n) ==
    LET i == refs[n]
        origin_tag == origin_tag_array[i.tag_index + 1]
        next(found) ==
            IF found.some
            THEN insert_loop(ts, origin_tag_array,
                             set_reference(tag, [i EXCEPT !.tag_index = found.val]),
                             refs, n + 1)
            ELSE [st |-> "err", tag |-> tag]
    IN  IF n > Len(refs) THEN [st |-> "ok", tag |-> tag]
        ELSE IF ~(i.tag_index < Len(origin_tag_array)) THEN [st |-> "panic", tag |-> tag]
        ELSE next(find_tag(ts, origin_tag.tag_path, origin_tag.tag_class[1]))

(* TagArray::insert *)
insert(ts, origin_tag_array, origin_tag_index) ==
    LET tag == origin_tag_array[origin_tag_index + 1]
        fail(st) == [st |-> st, tags |-> ts, ret |-> 0]
        push(r) ==
            IF r.st # "ok" THEN fail(r.st)
            ELSE IF Len(ts) > 65535 THEN fail("panic")
            ELSE [st |-> "ok", tags |-> Append(ts, r.tag), ret |-> Len(ts)]
        copy(rs) ==
            IF rs.st = "panic" THEN fail("panic")
            ELSE push(insert_loop(ts, origin_tag_array, tag, rs.refs, 1))
    IN  IF already_exists(ts, tag) THEN fail("err")
        ELSE copy(references(tag, origin_tag_array))

(* tags_to_be_imported.contains(&origin_tag_index) *)
contains(tags_to_be_imported, origin_tag_index) ==
    \E k \in 1 .. Len(tags_to_be_imported) : tags_to_be_imported[k] = origin_tag_index

(* TagArray::p_insert_recursive.  calls counts the invocations made. *)
RECURSIVE p_insert_recursive(_, _, _, _)
RECURSIVE import_references(_, _, _, _, _, _, _, _, _)
p_insert_recursive(ts, origin_tag_array, origin_tag_index, tags_to_be_imported) ==
    LET tag == origin_tag_array[origin_tag_index + 1]
        fail(imported, calls) ==
            [st |-> "panic", tags |-> ts, imported |-> imported, ret |-> 0,
             calls |-> calls]
        push(r) ==
            IF r.st = "panic" THEN fail(r.imported, r.calls)
            ELSE IF Len(r.tags) > 65535 THEN fail(r.imported, r.calls)
            ELSE [st |-> "ok",
                  tags |-> Append(r.tags,
                                  set_references(
                                      r.tag,
                                      [k \in 1 .. Len(r.self) |->
                                          [r.self[k] EXCEPT !.tag_index = Len(r.tags)]],
                                      1)),
                  imported |-> r.imported, ret |-> Len(r.tags), calls |-> r.calls]
        copy(rs) ==
            IF rs.st = "panic" THEN fail(tags_to_be_imported, 1)
            ELSE push(import_references(ts, origin_tag_array, origin_tag_index, tag,
                                        rs.refs, 1,
                                        Append(tags_to_be_imported, origin_tag_index),
                                        <<>>, 1))
    IN  IF contains(tags_to_be_imported, origin_tag_index)
        THEN [st |-> "ok", tags |-> ts, imported |-> tags_to_be_imported,
              ret |-> origin_tag_index, calls |-> 1]
        ELSE copy(references(tag, origin_tag_array))

import_references(ts, origin_tag_array, origin_tag_index, tag, refs, n, tags_to_be_imported, referencing_self, calls) ==
    LET i == refs[n]
        origin_tag == origin_tag_array[i.tag_index + 1]
        out(st, imported, c) ==
            [st |-> st, tags |-> ts, tag |-> tag, imported |-> imported,
             self |-> referencing_self, calls |-> c]
        imported(r) ==
            IF r.st = "panic" THEN out("panic", r.imported, calls + r.calls)
            ELSE import_references(r.tags, origin_tag_array, origin_tag_index,
                                   set_reference(tag, [i EXCEPT !.tag_index = r.ret]),
                                   refs, n + 1, r.imported, referencing_self,
                                   calls + r.calls)
        next(found) ==
            IF found.some
            THEN import_references(ts, origin_tag_array, origin_tag_index,
                                   set_reference(tag, [i EXCEPT !.tag_index = found.val]),
                                   refs, n + 1, tags_to_be_imported, referencing_self,
                                   calls)
            ELSE imported(p_insert_recursive(ts, origin_tag_array, i.tag_index,
                                             tags_to_be_imported))
    IN  IF n > Len(refs) THEN out("ok", tags_to_be_imported, calls)
        ELSE IF ~(i.tag_index < Len(origin_tag_array))
        THEN out("panic", tags_to_be_imported, calls)
        ELSE IF i.tag_index = origin_tag_index
        THEN import_references(ts, origin_tag_array, origin_tag_index, tag, refs, n + 1,
                               tags_to_be_imported, Append(referencing_self, i), calls)
        ELSE next(find_tag(ts, origin_tag.tag_path, origin_tag.tag_class[1]))

(* TagArray::insert_recursive *)
insert_recursive(ts, origin_tag_array, origin_tag_index) ==
    LET result(r) == [st |-> r.st, tags |-> r.tags, ret |-> r.ret, calls |-> r.calls]
    IN  IF already_exists(ts, origin_tag_array[origin_tag_index + 1])
        THEN [st |-> "err", tags |-> ts, ret |-> 0, calls |-> 0]
        ELSE result(p_insert_recursive(ts, origin_tag_array, origin_tag_index, <<>>))

-----------------------------------------------------------------------------
(* Tag data of the shapes the operations read, built at a base address.     *)
(* A tag is described by its kind, class, path and the targets (tag indices *)
(* or NULL_INDEX) of its references; cls gives the primary class of every   *)
(* tag of the array the references point into.                              *)

WEAP == le32(\H77656170)
NO_CLASS == <<NULL32, NULL32>>

Zeros(n) == [k \in 1 .. n |-> 0]
put(d, o, b) == [k \in 1 .. Len(d) |-> IF k > o /\ k <= o + Len(b) THEN b[k - o] ELSE d[k]]

RECURSIVE Concat(_)
Concat(ss) == IF ss = <<>> THEN <<>> ELSE Head(ss) \o Concat(Tail(ss))

(* a 16-byte dependency: class, two unused words, identity *)
Dependency(cls, target) ==
    (IF target = NULL_INDEX THEN WEAP ELSE cls[target + 1])
        \o ZERO32 \o ZERO32 \o tag_index_to_tag_id(target)

(* a 12-byte reflexive *)
ReflexiveBytes(count, address) == le32(count) \o le32(address) \o ZERO32

(* generic class: the dependencies, then a reflexive of one 4-byte element *)
GenData(desc, cls, base) ==
    LET n == Len(desc.deps) IN
    Concat([k \in 1 .. n |-> Dependency(cls, desc.deps[k])])
        \o ReflexiveBytes(1, base + 16 * n + 12) \o <<1, 2, 3, 4>>

(* bitm: header with the bitmaps reflexive at 0x60, then one 0x30-byte
   element per reference, flagged external (+0xF bit 0), identity at +0x20 *)
BitmElement(target) ==
    put(put(Zeros(\H30), \HF, <<1>>), \H20, tag_index_to_tag_id(target))

BitmData(desc, base) ==
    LET n == Len(desc.deps) IN
    put(Zeros(\H6C), \H60,
        IF n = 0 THEN Zeros(12) ELSE ReflexiveBytes(n, base + \H6C))
        \o Concat([k \in 1 .. n |-> BitmElement(desc.deps[k])])

(* predicted resource record: type 0 for a bitm, 1 for a snd! *)
PredictedResource(cls, target) ==
    (IF target # NULL_INDEX /\ cls[target + 1] = SND THEN <<1, 0>> ELSE <<0, 0>>)
        \o <<0, 0>> \o tag_index_to_tag_id(target)

(* scnr: dependencies from offset 0, predicted resources reflexive at 0xEC,
   its records after the hdr-byte header *)
ScnrData(desc, cls, base, hdr) ==
    LET n == Len(desc.deps)
        m == Len(desc.pred)
        head == put(put(Zeros(hdr), 0,
                        Concat([k \in 1 .. n |-> Dependency(cls, desc.deps[k])])),
                    \HEC,
                    IF m = 0 THEN Zeros(12) ELSE ReflexiveBytes(m, base + hdr))
    IN  head \o Concat([k \in 1 .. m |-> PredictedResource(cls, desc.pred[k])])

(* shortest scnr data whose references can be enumerated: the predicted
   resources reflexive ends at 0xF8 *)
SCNR_MIN == \HF8

ArrData(desc, cls, base) ==
    CASE desc.kind = "bitm" -> BitmData(desc, base)
      [] desc.kind = "scnr" -> ScnrData(desc, cls, base, SCNR_MIN)
      [] OTHER              -> GenData(desc, cls, base)

BASE_ADDRESS == \H40440000

ArrTag(descs, i) ==
    LET desc == descs[i]
        cls == [k \in 1 .. Len(descs) |-> descs[k].class]
        base == BASE_ADDRESS + \H1000 * i
    IN  Tag(desc.path, <<desc.class>> \o NO_CLASS,
            Some(ArrData(desc, cls, base)), NoneSeq, FALSE, NoneSeq, Some(base))

ArrTags(descs) == [i \in 1 .. Len(descs) |-> ArrTag(descs, i)]

Desc(kind, class, path, deps, pred) ==
    [kind |-> kind, class |-> class, path |-> path, deps |-> deps, pred |-> pred]

(* families of arrays of three tags: who references whom is drawn from the
   sets D1, D2, D3 (and P for the scenario's predicted resource) *)
PATH_S == <<115>>
PATH_W == <<119>>
PATH_C == <<99>>
PATH_X == <<120>>
PATH_Y == <<121>>
PATH_Z == <<122>>
PATH_UNUSED == <<117, 110, 117, 115, 101, 100>>

FamilyA ==
    {[descs |-> <<Desc("scnr", SCNR, PATH_S, <<d1>>, <<p>>),
                  Desc("gen", WEAP, PATH_W, <<d2>>, <<>>),
                  Desc("bitm", BITM, PATH_UNUSED, <<d3>>, <<>>)>>,
      principal |-> Some(0)] :
        d1 \in {NULL_INDEX, 1}, p \in {NULL_INDEX, 2},
        d2 \in {NULL_INDEX, 0, 2}, d3 \in {NULL_INDEX, 2}}

FamilyB ==
    {[descs |-> <<Desc("bitm", BITM, PATH_UI_BACKGROUND, <<d1>>, <<>>),
                  Desc("gen", WEAP, PATH_W, <<d2>>, <<>>),
                  Desc("scnr", SCNR, PATH_S, <<d3>>, <<p>>)>>,
      principal |-> Some(2)] :
        d1 \in {NULL_INDEX, 1}, d2 \in {NULL_INDEX, 2},
        d3 \in {NULL_INDEX, 1}, p \in {NULL_INDEX, 0}}

FamilyC ==
    {[descs |-> <<Desc("gen", TAGC, PATH_X, <<d1>>, <<>>),
                  Desc("gen", WEAP, PATH_Y, <<d2>>, <<>>),
                  Desc("gen", WEAP, PATH_Z, <<d3>>, <<>>)>>,
      principal |-> NoneNat] :
        d1 \in {NULL_INDEX, 0, 1, 2}, d2 \in {NULL_INDEX, 0, 1, 2},
        d3 \in {NULL_INDEX, 0, 1, 2}}

Arrays ==
    {[tags |-> ArrTags(f.descs), principal |-> f.principal] :
        f \in FamilyA \cup FamilyB \cup FamilyC}

(* TagArray::new on the tags of a without the tag k, references and
   principal tag made to match *)
Without(a, k) ==
    [tags |-> remove(a.tags, k).tags,
     principal |-> IF ~a.principal.some \/ a.principal.val = k THEN NoneNat
                   ELSE IF a.principal.val > k THEN Some(a.principal.val - 1)
                   ELSE a.principal]

EmptyArray == [tags |-> <<>>, principal |-> NoneNat]

-----------------------------------------------------------------------------
(* Operations on a TagArray *)

MaxSteps == 2

NoOp == [op |-> "new", arg |-> 0, st |-> "ok", ret |-> 0, calls |-> 0,
         pre |-> <<>>, pre_principal |-> NoneNat]

NoMap == [some |-> FALSE]

InitArr ==
    /\ origin \in Arrays
    /\ \E a \in {EmptyArray, origin} \cup {Without(origin, k) : k \in 0 .. 2} :
          /\ tags = a.tags
          /\ principal_tag = a.principal
    /\ last = NoOp
    /\ status = "ok"
    /\ steps = 0
    /\ cache_file = <<>>
    /\ map = NoMap
    /\ pc = "array"
    /\ hist = <<>>

Done(op, arg, r, ret, calls) ==
    /\ last' = [op |-> op, arg |-> arg, st |-> r.st, ret |-> ret, calls |-> calls,
                pre |-> tags, pre_principal |-> principal_tag]
    /\ tags' = IF r.st = "ok" THEN r.tags ELSE tags
    /\ status' = IF r.st = "panic" THEN "panicked" ELSE "ok"
    /\ steps' = steps + 1
    /\ UNCHANGED <<principal_tag, origin, cache_file, map, pc, hist>>

CanStep == pc = "array" /\ status = "ok" /\ steps < MaxSteps

Remove(i) ==
    /\ CanStep
    /\ i < Len(tags)
    /\ Done("remove", i, remove(tags, i), 0, 0)

RemoveDeadTags ==
    /\ CanStep
    /\ Done("remove_dead_tags", 0, remove_dead_tags(tags, principal_tag), 0, 0)

Insert(k) ==
    /\ CanStep
    /\ k < Len(origin.tags)
    /\ LET done(r) == Done("insert", k, r, r.ret, 0)
       IN  done(insert(tags, origin.tags, k))

InsertRecursive(k) ==
    /\ CanStep
    /\ k < Len(origin.tags)
    /\ LET done(r) == Done("insert_recursive", k, r, r.ret, r.calls)
       IN  done(insert_recursive(tags, origin.tags, k))

NextArr ==
    \/ \E i \in 0 .. 2 : Remove(i)
    \/ RemoveDeadTags
    \/ \E k \in 0 .. 2 : Insert(k)
    \/ \E k \in 0 .. 2 : InsertRecursive(k)

SpecArr == InitArr /\ [][NextArr]_vars

-----------------------------------------------------------------------------
(* Properties of the TagArray operations, stated on the last operation run  *)
(* (last) and the array it left (tags, principal_tag).                      *)

(* where the identity word of a reference is stored in the tag's data *)
identity_offset(r) == IF r.reference_type = "TagID" THEN r.offset ELSE r.offset + \HC

same_tag(a, b) == a.tag_path = b.tag_path /\ a.tag_class = b.tag_class

tag_name(tag) == <<tag.tag_path, tag.tag_class>>

(* the indices the references of tag i of ts target, in enumeration order *)
ref_indices(ts, i) ==
    LET list(rs) == [k \in 1 .. Len(rs.refs) |-> rs.refs[k].tag_index]
    IN  list(references(ts[i + 1], ts))

ref_targets(ts, i) ==
    LET set(l) == {l[k] : k \in 1 .. Len(l)} IN set(ref_indices(ts, i))

(* the tags reachable from the tags S by following references *)
RECURSIVE Reach(_, _)
Reach(ts, S) ==
    LET grow(N) == IF N = S THEN S ELSE Reach(ts, N)
    IN  grow(S \cup UNION {ref_targets(ts, i) : i \in S})

(* the index remove(i) must leave in a reference that targeted j *)
C5_expected(j, i) == IF j = i THEN NULL_INDEX ELSE IF j > i THEN j - 1 ELSE j

C5_tag_rewritten(before, after, i, t) ==
    LET post == IF t > i THEN t - 1 ELSE t
        stored(r) == word(after[post + 1].data.val, identity_offset(r))
        ok(rs) ==
            \A k \in 1 .. Len(rs.refs) :
                /\ stored(rs.refs[k])
                     = tag_index_to_tag_id(C5_expected(rs.refs[k].tag_index, i))
                /\ rs.refs[k].tag_index # i =>
                     same_tag(after[C5_expected(rs.refs[k].tag_index, i) + 1],
                              before[rs.refs[k].tag_index + 1])
        still(rs, now) ==
            \A k \in 1 .. Len(rs.refs) :
                (rs.refs[k].tag_index # i) <=>
                    \E n \in 1 .. Len(now.refs) :
                        /\ now.refs[n].offset = rs.refs[k].offset
                        /\ now.refs[n].tag_index
                             = C5_expected(rs.refs[k].tag_index, i)
    IN  /\ ok(references(before[t + 1], before))
        /\ same_tag(after[post + 1], before[t + 1])
        /\ still(references(before[t + 1], before),
                 references(after[post + 1], after))

(* C5: after remove(i), every reference of every surviving tag that targeted
   j is stored as the null identity if j = i, as the identity of j - 1 if
   j > i and as the identity of j if j < i; no surviving tag references the
   removed tag any longer and every non-null reference designates the tag
   (path and class) it designated before. *)
C5_RemoveRewritesReferences ==
    (last.op = "remove" /\ last.st = "ok") =>
        /\ Len(tags) = Len(last.pre) - 1
        /\ \A t \in 0 .. Len(last.pre) - 1 :
               t # last.arg => C5_tag_rewritten(last.pre, tags, last.arg, t)

(* a remove(i) that met a reference to i and a reference past i *)
C5_Witness ==
    /\ last.op = "remove" /\ last.st = "ok"
    /\ \E t \in 0 .. Len(last.pre) - 1 :
           t # last.arg /\ last.arg \in ref_targets(last.pre, t)
    /\ \E t \in 0 .. Len(last.pre) - 1 :
           t # last.arg /\ \E j \in ref_targets(last.pre, t) : j > last.arg

(* C6: principal_tag is unset, or an index in range that designates a tag
   of primary class scnr, in every state the operations reach. *)
C6_PrincipalValid ==
    principal_tag.some =>
        /\ principal_tag.val < Len(tags)
        /\ tags[principal_tag.val + 1].tag_class[1] = SCNR

(* the roots of remove_dead_tags as the specification lists them *)
C7_whitelist ==
    {<<BITM, PATH_UI_BACKGROUND>>, <<BITM, PATH_UI_TROUBLE_BREWING>>,
     <<SND, PATH_SFX_CURSOR>>, <<SND, PATH_SFX_FORWARD>>, <<SND, PATH_SFX_BACK>>,
     <<USTR, PATH_STR_LOADING>>, <<USTR, PATH_STR_MP_MAP_LIST>>,
     <<MATG, PATH_GLOBALS>>}

C7_roots(ts, principal) ==
    {i \in 0 .. Len(ts) - 1 :
        \/ principal.some /\ principal.val = i
        \/ <<ts[i + 1].tag_class[1], ts[i + 1].tag_path>> \in C7_whitelist
        \/ ts[i + 1].tag_class[1] = TAGC}

(* the names of the tags of ts with an index in S, in the order of ts *)
C7_kept(ts, S) ==
    LET names(idx) == [k \in 1 .. Len(idx) |-> tag_name(ts[idx[k] + 1])]
    IN  names(SelectSeq([k \in 1 .. Len(ts) |-> k - 1], LAMBDA i : i \in S))

C8_PrincipalRemapped ==
    (/\ last.op = "remove_dead_tags" /\ last.st = "ok"
     /\ last.pre_principal.some
     /\ last.pre_principal.val < Len(last.pre)
     /\ last.pre[last.pre_principal.val + 1].tag_class[1] = SCNR) =>
        /\ principal_tag.some
        /\ principal_tag.val < Len(tags)
        /\ same_tag(tags[principal_tag.val + 1], last.pre[last.pre_principal.val + 1])

(* the references of the added copy of origin tag o designate, in dest, the
   tags their origin targets name *)
C9_resolved(dest, org, added, o) ==
    LET stored(r) == word(added.data.val, identity_offset(r))
        ok(rs) ==
            \A k \in 1 .. Len(rs.refs) :
                /\ lo16(stored(rs.refs[k])) < Len(dest)
                /\ stored(rs.refs[k]) = tag_index_to_tag_id(lo16(stored(rs.refs[k])))
                /\ same_tag(dest[lo16(stored(rs.refs[k])) + 1],
                            org[rs.refs[k].tag_index + 1])
    IN  ok(references(org[o + 1], org))

(* C9: after a successful insert_recursive every reference of every added
   tag designates the destination tag with the path and class of the origin
   tag it targeted, cycles and self-references included. *)
C9_InsertRecursiveResolves ==
    (last.op = "insert_recursive" /\ last.st = "ok") =>
        \A n \in Len(last.pre) + 1 .. Len(tags) :
            \A o \in 0 .. Len(origin.tags) - 1 :
                same_tag(origin.tags[o + 1], tags[n]) =>
                    C9_resolved(tags, origin.tags, tags[n], o)

(* no tag of pre has the path and primary class of origin tag j *)
C10_absent(pre, org, j) ==
    \A k \in 1 .. Len(pre) :
        ~(/\ pre[k].tag_path = org[j + 1].tag_path
          /\ pre[k].tag_class[1] = org[j + 1].tag_class[1])

(* the tags reachable from S through references that lead to tags absent
   from pre; a tag present in pre is where the walk stops *)
RECURSIVE C10_reach_absent(_, _, _)
C10_reach_absent(org, pre, S) ==
    LET grow(N) == IF N = S THEN S ELSE C10_reach_absent(org, pre, N)
    IN  grow(S \cup {j \in UNION {ref_targets(org, i) : i \in S} :
                        C10_absent(pre, org, j)})

(* the call added exactly the origin tags want, each once, in at most one
   invocation per reference followed *)
C10_added(want) ==
    /\ Len(tags) - Len(last.pre) = Cardinality(want)
    /\ SubSeq(tags, 1, Len(last.pre)) = last.pre
    /\ {tag_name(tags[n]) : n \in Len(last.pre) + 1 .. Len(tags)}
         = {tag_name(origin.tags[j + 1]) : j \in want}
    /\ last.calls <= 1 + Cardinality(UNION {{<<i, k>> :
                                               k \in 1 .. Len(ref_indices(origin.tags, i))} :
                                            i \in want})

-----------------------------------------------------------------------------
(* map/mod.rs.  usize is 64 bits wide: a sum or product of values read from *)
(* 32-bit fields never overflows it.  A field with its top bit set exceeds  *)
(* every length of the model and is compared as such, not converted.        *)

(* Game and MapType *)
Game_from_u32(map_game) ==
    CASE map_game = le32(\H7)   -> [is |-> "HaloCombatEvolved", n |-> ZERO32]
      [] map_game = le32(\H261) -> [is |-> "HaloCustomEdition", n |-> ZERO32]
      [] OTHER                  -> [is |-> "Unknown", n |-> map_game]

Game_as_u32(game) ==
    CASE game.is = "HaloCombatEvolved" -> le32(\H7)
      [] game.is = "HaloCustomEdition" -> le32(\H261)
      [] OTHER                         -> game.n

MapType_from_u32(map_type) ==
    CASE map_type = le32(\H0) -> [is |-> "Singleplayer", n |-> ZERO32]
      [] map_type = le32(\H1) -> [is |-> "Multiplayer", n |-> ZERO32]
      [] map_type = le32(\H2) -> [is |-> "UserInterface", n |-> ZERO32]
      [] OTHER                -> [is |-> "Unknown", n |-> map_type]

MapType_as_u32(map_type) ==
    CASE map_type.is = "Singleplayer"  -> le32(\H0)
      [] map_type.is = "Multiplayer"   -> le32(\H1)
      [] map_type.is = "UserInterface" -> le32(\H2)
      [] OTHER                         -> map_type.n

(* pad_32 *)
pad_32(length) == length + ((4 - (length % 4)) % 4)

(* Strings are sequences of code points.  ISO-8859-1 decodes the byte b to
   the code point b, and encodes the code points up to 255 only. *)
OkStr(s) == [st |-> "ok", val |-> s]
ErrStr == [st |-> "err", val |-> <<>>]

(* string_from_slice(&d[from ..]) *)
string_from_slice(d, from) ==
    LET upto(n) == OkStr([k \in 1 .. n - 1 - from |-> d[from + k]])
    IN  IF \A k \in from + 1 .. Len(d) : d[k] # 0 THEN ErrStr
        ELSE upto(CHOOSE n \in from + 1 .. Len(d) :
                      d[n] = 0 /\ \A j \in from + 1 .. n - 1 : d[j] # 0)

(* Variant of encode_latin1_string that writes two bytes for every code
   point above 127 *)
encode_two_byte_string(string) ==
    IF \E k \in 1 .. Len(string) : string[k] > 255 THEN ErrStr
    ELSE OkStr([k \in 1 .. Len(string) + Cardinality({j \in 1 .. Len(string) : string[j] > 127}) |->
                   IF k <= Len(string) THEN string[k] % 128 ELSE 195])

(* encode_latin1_string *)
encode_latin1_string(string) ==
    IF \E k \in 1 .. Len(string) : string[k] > 255 THEN ErrStr
    ELSE OkStr([k \in 1 .. Len(string) |-> string[k]])

(* Reflexive::serialize(&d[o ..], min_address, max_address, reflexive_size):
   count is a number, address the word read *)
ErrReflexive == [st |-> "err", count |-> 0, address |-> ZERO32]
Reflexive_serialize(d, o, min_address, max_address, reflexive_size) ==
    LET inside(cw, aw) ==
            /\ small(aw) /\ num(aw) < max_address /\ num(aw) >= min_address
            /\ small(cw) /\ num(cw) <= max_address - min_address
            /\ num(cw) * reflexive_size + num(aw) <= max_address
    IN  IF Len(d) - o < \HC THEN ErrReflexive
        ELSE IF word(d, o) # ZERO32 /\ ~inside(word(d, o), word(d, o + 4))
        THEN ErrReflexive
        ELSE [st |-> "ok",
              count |-> IF word(d, o) = ZERO32 THEN 0 ELSE num(word(d, o)),
              address |-> word(d, o + 4)]

(* d[a .. b] *)
slice(d, a, b) == SubSeq(d, a + 1, b)

(* a 32-bit field as a length or file offset: exact up to len, and len + 1
   for everything above (it is only ever compared with lengths <= len) *)
field(w, len) == IF small(w) /\ num(w) <= len THEN num(w) ELSE len + 1

(* the closure address_to_offset of from_cache_file *)
address_to_offset(address, meta_len) ==
    IF ~small(address) THEN NoneNat
    ELSE IF num(address) < BASE_ADDRESS THEN NoneNat
    ELSE IF num(address) - BASE_ADDRESS < meta_len THEN Some(num(address) - BASE_ADDRESS)
    ELSE NoneNat

(* Result of Map::from_cache_file: Ok(Map), Err or a panic *)
ParsedMap(kind, name, build, ts, principal) ==
    [st |-> "ok", kind |-> kind, name |-> name, build |-> build, tags |-> ts,
     principal |-> principal]
FailedParse(st) ==
    [st |-> st, kind |-> <<>>, name |-> <<>>, build |-> <<>>, tags |-> <<>>,
     principal |-> NoneNat]

(* from_cache_file, the cache file header: length, head and foot, file
   size, name, build and the range of the meta data *)
NoHeader(st) == [st |-> st, file_size |-> 0, meta_offset |-> 0, meta_length |-> 0]
(* Variant of cache_header that does not test the foot magic *)
cache_header_no_foot(d) ==
    LET range(file_size) ==
            IF field(word(d, \H10), file_size) + field(word(d, \H14), file_size)
                   > file_size
            THEN NoHeader("err")
            ELSE [st |-> "ok", file_size |-> file_size,
                  meta_offset |-> num(word(d, \H10)),
                  meta_length |-> num(word(d, \H14))]
    IN  IF Len(d) < \H800 THEN NoHeader("err")
        ELSE IF word(d, \H0) # le32(\H68656164) THEN NoHeader("err")
        ELSE IF field(word(d, \H8), Len(d)) > Len(d) THEN NoHeader("err")
        ELSE IF string_from_slice(d, \H20).st = "err" THEN NoHeader("err")
        ELSE IF string_from_slice(d, \H40).st = "err" THEN NoHeader("err")
        ELSE range(num(word(d, \H8)))
cache_header(d) ==
    LET range(file_size) ==
            IF field(word(d, \H10), file_size) + field(word(d, \H14), file_size)
                   > file_size
            THEN NoHeader("err")
            ELSE [st |-> "ok", file_size |-> file_size,
                  meta_offset |-> num(word(d, \H10)),
                  meta_length |-> num(word(d, \H14))]
    IN  IF Len(d) < \H800 THEN NoHeader("err")
        ELSE IF word(d, \H0) # le32(\H68656164) \/ word(d, \H7FC) # le32(\H666F6F74)
        THEN NoHeader("err")
        ELSE IF field(word(d, \H8), Len(d)) > Len(d) THEN NoHeader("err")
        ELSE IF string_from_slice(d, \H20).st = "err" THEN NoHeader("err")
        ELSE IF string_from_slice(d, \H40).st = "err" THEN NoHeader("err")
        ELSE range(num(word(d, \H8)))

(* from_cache_file, the tag data header: model data, tag array, scenario.
   tags.reserve_exact(tag_count) is taken to succeed. *)
NoIndex(st) ==
    [st |-> st, d |-> <<>>, file_size |-> 0, meta |-> <<>>, model_data_offset |-> 0,
     index_data_offset |-> 0, model_data_end |-> 0, tag_count |-> 0,
     tag_array_start |-> 0, scenario_tag |-> NoneNat]
tag_index_header(d, h) ==
    LET meta == slice(d, h.meta_offset, h.meta_offset + h.meta_length)
        model_data_offset == field(word(meta, \H14), Len(d))
        model_data_end == field(word(meta, \H20), Len(d)) + model_data_offset
        index_data_offset == field(word(meta, \H1C), Len(d)) + model_data_offset
        tag_count == field(word(meta, \HC), Len(meta))
        scenario(tag_array_start) ==
            IF word(meta, \H4) # NULL32 /\ lo16(word(meta, \H4)) > tag_count
            THEN NoIndex("err")
            ELSE [st |-> "ok", d |-> d, file_size |-> h.file_size, meta |-> meta,
                  model_data_offset |-> model_data_offset,
                  index_data_offset |-> index_data_offset,
                  model_data_end |-> model_data_end, tag_count |-> tag_count,
                  tag_array_start |-> tag_array_start,
                  scenario_tag |-> IF word(meta, \H4) = NULL32 THEN NoneNat
                                   ELSE Some(lo16(word(meta, \H4)))]
        array(tag_array_start) ==
            IF ~tag_array_start.some THEN NoIndex("err")
            ELSE IF tag_array_start.val + \H20 * tag_count > Len(meta)
            THEN NoIndex("err")
            ELSE scenario(tag_array_start.val)
    IN  IF Len(meta) < \H24 THEN NoIndex("panic")
        ELSE IF model_data_end > Len(d) THEN NoIndex("err")
        ELSE IF index_data_offset > Len(d) \/ index_data_offset > model_data_end
        THEN NoIndex("err")
        ELSE array(address_to_offset(word(meta, \H0), Len(meta)))

(* the tag array entry of tag i *)
entry(c, i) == slice(c.meta, c.tag_array_start + i * \H20,
                     c.tag_array_start + (i + 1) * \H20)

(* from_cache_file, the scenario's sbsp table:
   (tag index, memory address, file offset, data size) per record *)
OkSbsps(s) == [st |-> "ok", sbsps |-> s]
FailedSbsps(st) == [st |-> st, sbsps |-> <<>>]
sbsp_table(c) ==
    LET record(o) == [tag_index |-> lo16(word(c.meta, o + \H1C)),
                      tag_memory_address |-> word(c.meta, o + \H8),
                      tag_file_offset |-> field(word(c.meta, o + \H0), c.file_size),
                      tag_size |-> field(word(c.meta, o + \H4), c.file_size)]
        records(r) ==
            IF \E i \in 0 .. r.count - 1 :
                   record(num(r.address) - BASE_ADDRESS + i * 32).tag_file_offset
                     + record(num(r.address) - BASE_ADDRESS + i * 32).tag_size
                     > c.file_size
            THEN FailedSbsps("err")
            ELSE OkSbsps([k \in 1 .. r.count |->
                             record(num(r.address) - BASE_ADDRESS + (k - 1) * 32)])
        table(r) == IF r.st = "err" THEN FailedSbsps("err") ELSE records(r)
        data(n) ==
            IF ~n.some THEN FailedSbsps("err")
            ELSE IF n.val + \H5B0 > Len(c.meta) THEN FailedSbsps("err")
            ELSE table(Reflexive_serialize(slice(c.meta, n.val, n.val + \H5B0), \H5A4,
                                           BASE_ADDRESS, BASE_ADDRESS + Len(c.meta), 32))
    IN  IF ~c.scenario_tag.some THEN OkSbsps(<<>>)
        ELSE IF (c.scenario_tag.val + 1) * \H20 > c.tag_count * \H20
        THEN FailedSbsps("panic")
        ELSE data(address_to_offset(word(entry(c, c.scenario_tag.val), \H14),
                                    Len(c.meta)))

(* Asset data of a tag: Ok(tag data rewritten, asset data), Err or panic *)
NoAsset(st, data) == [st |-> st, data |-> data, asset |-> NoneSeq]

RECURSIVE sum_seq(_)
sum_seq(s) == IF s = <<>> THEN 0 ELSE Head(s) + sum_seq(Tail(s))

(* bitm, first loop: the u32 sum of the fields at +0x18 of the internal
   bitmaps, as "zero", "nonzero" or "overflow" *)
bitm_asset_len(data, bo, count) ==
    LET internal(k) == data[bo + (k - 1) * \H30 + \HF + 1] % 2 = 0
        total(los, his) ==
            IF his + (los \div 65536) >= 65536 THEN "overflow"
            ELSE IF his = 0 /\ los = 0 THEN "zero" ELSE "nonzero"
    IN  total(sum_seq([k \in 1 .. count |->
                          IF internal(k)
                          THEN lo16(word(data, bo + (k - 1) * \H30 + \H18)) ELSE 0]),
              sum_seq([k \in 1 .. count |->
                          IF internal(k)
                          THEN hi16(word(data, bo + (k - 1) * \H30 + \H18)) ELSE 0]))

(* bitm, second loop from bitmap i: the pixels cache_file[offset ..
   offset + size] are appended and the offset made relative to them *)
RECURSIVE bitm_extract(_, _, _, _, _, _)
bitm_extract(d, data, bo, i, count, asset) ==
    LET b == bo + i * \H30
        data_offset == field(word(data, b + \H18), Len(d))
        data_size == field(word(data, b + \H1C), Len(d))
    IN  IF i >= count THEN [st |-> "ok", data |-> data, asset |-> Some(asset)]
        ELSE IF data[b + \HF + 1] % 2 # 0
        THEN bitm_extract(d, data, bo, i + 1, count, asset)
        ELSE IF data_offset + data_size > Len(d) THEN NoAsset("panic", data)
        ELSE bitm_extract(d, write_u32(data, b + \H18, le32(Len(asset))), bo, i + 1,
                          count, asset \o slice(d, data_offset, data_offset + data_size))

bitm_assets(d, tag_data, memory_address) ==
    LET sized(l, bo, count) ==
            CASE l = "overflow" -> NoAsset("panic", tag_data)
              [] l = "zero"     -> NoAsset("ok", tag_data)
              [] OTHER          -> bitm_extract(d, tag_data, bo, 0, count, <<>>)
        bitmaps(r) ==
            IF r.st = "err" THEN NoAsset("err", tag_data)
            ELSE IF r.count = 0 THEN NoAsset("ok", tag_data)
            ELSE sized(bitm_asset_len(tag_data, num(r.address) - memory_address, r.count),
                       num(r.address) - memory_address, r.count)
    IN  IF Len(tag_data) < \H60 + \HC THEN NoAsset("err", tag_data)
        ELSE bitmaps(Reflexive_serialize(tag_data, \H60, memory_address,
                                         memory_address + Len(tag_data), \H30))

(* snd! and mod2: the offsets in the tag data of the elements of the inner
   reflexives (permutations, parts) of every element of the outer reflexive
   (ranges, geometries), in the order the loops visit them, and the count
   of the outer reflexive *)
OkElements(e, count) == [st |-> "ok", elems |-> e, count |-> count]
ErrElements == [st |-> "err", elems |-> <<>>, count |-> 0]
nested_elements(data, memory_address, outer, outer_size, inner, inner_size) ==
    LET max == memory_address + Len(data)
        inner_reflexive(oo, i) ==
            Reflexive_serialize(data, oo + i * outer_size + inner, memory_address, max,
                                inner_size)
        elements(r) == [p \in 1 .. r.count |->
                           num(r.address) - memory_address + (p - 1) * inner_size]
        list(oo, count) ==
            IF \E i \in 0 .. count - 1 : inner_reflexive(oo, i).st = "err"
            THEN ErrElements
            ELSE OkElements(Flatten([k \in 1 .. count |->
                                        elements(inner_reflexive(oo, k - 1))]),
                            count)
        outer_reflexive(r) ==
            IF r.st = "err" THEN ErrElements
            ELSE IF r.count = 0 THEN OkElements(<<>>, 0)
            ELSE list(num(r.address) - memory_address, r.count)
    IN  outer_reflexive(Reflexive_serialize(data, outer, memory_address, max, outer_size))

(* snd!, second loop from element n of the permutations *)
RECURSIVE snd_extract(_, _, _, _, _)
snd_extract(d, data, elems, n, asset) ==
    LET sound == elems[n]
        data_offset == field(word(data, sound + \H48), Len(d))
        data_size == field(word(data, sound + \H40), Len(d))
    IN  IF n > Len(elems) THEN [st |-> "ok", data |-> data, asset |-> Some(asset)]
        ELSE IF data[sound + \H44 + 1] % 2 # 0
        THEN snd_extract(d, data, elems, n + 1, asset)
        ELSE IF data_offset + data_size > Len(d) THEN NoAsset("panic", data)
        ELSE snd_extract(d, write_u32(data, sound + \H48, le32(Len(asset))), elems,
                         n + 1, asset \o slice(d, data_offset, data_offset + data_size))

snd_assets(d, tag_data, memory_address) ==
    LET internal(e) == tag_data[e + \H44 + 1] % 2 = 0
        data_offset(e) == field(word(tag_data, e + \H48), Len(d))
        data_size(e) == field(word(tag_data, e + \H40), Len(d))
        sounds(r) ==
            IF r.st = "err" THEN NoAsset("err", tag_data)
            ELSE IF \E k \in 1 .. Len(r.elems) :
                        /\ internal(r.elems[k])
                        /\ data_offset(r.elems[k]) + data_size(r.elems[k]) > Len(d)
            THEN NoAsset("err", tag_data)
            ELSE IF \A k \in 1 .. Len(r.elems) :
                        internal(r.elems[k]) => data_size(r.elems[k]) = 0
            THEN NoAsset("ok", tag_data)
            ELSE snd_extract(d, tag_data, r.elems, 1, <<>>)
    IN  IF Len(tag_data) < \H98 + \HC THEN NoAsset("err", tag_data)
        ELSE sounds(nested_elements(tag_data, memory_address, \H98, \H48, \H3C, \H7C))

(* mod2: the vertex and index ranges of the part at offset part of data,
   within vlen bytes of vertices and ilen bytes of indices *)
index_offset(data, part, ilen) == field(word(data, part + \H48 + \H4), ilen)
index_end(data, part, ilen) ==
    field(word(data, part + \H48 + \H0), ilen) * \H2 + 4 + index_offset(data, part, ilen)
vertex_offset(data, part, vlen) == field(word(data, part + \H58 + \HC), vlen)
vertex_size(data, part, vlen) == field(word(data, part + \H58 + \H0), vlen) * \H44
vertex_end(data, part, vlen) ==
    vertex_offset(data, part, vlen) + vertex_size(data, part, vlen)

(* mod2, second loop from element n of the parts *)
RECURSIVE mod2_extract(_, _, _, _, _, _)
mod2_extract(vertices, indices, data, elems, n, asset) ==
    LET part == elems[n]
        vlen == Len(vertices)
        ilen == Len(indices)
        moved == write_u32(
                     write_u32(
                         write_u32(data, part + \H58 + \HC, le32(Len(asset))),
                         part + \H48 + \H4,
                         le32(Len(asset) + vertex_size(data, part, vlen))),
                     part + \H48 + \H8,
                     le32(Len(asset) + vertex_size(data, part, vlen)))
    IN  IF n > Len(elems) THEN [st |-> "ok", data |-> data, asset |-> Some(asset)]
        ELSE IF vertex_end(data, part, vlen) > vlen \/ index_end(data, part, ilen) > ilen
        THEN NoAsset("panic", data)
        ELSE mod2_extract(vertices, indices, moved, elems, n + 1,
                 asset \o slice(vertices, vertex_offset(data, part, vlen),
                                vertex_end(data, part, vlen))
                       \o slice(indices, index_offset(data, part, ilen),
                                index_end(data, part, ilen)))

mod2_assets(vertices, indices, tag_data, memory_address) ==
    LET bad(part) ==
            \/ word(tag_data, part + \H48 + \H8) # word(tag_data, part + \H48 + \H4)
            \/ index_end(tag_data, part, Len(indices)) > Len(indices)
            \/ vertex_end(tag_data, part, Len(vertices)) > Len(vertices)
        parts(r) ==
            IF r.st = "err" THEN NoAsset("err", tag_data)
            ELSE IF \E k \in 1 .. Len(r.elems) : bad(r.elems[k])
            THEN NoAsset("err", tag_data)
            ELSE IF r.elems = <<>> THEN NoAsset("ok", tag_data)
            ELSE mod2_extract(vertices, indices, tag_data, r.elems, 1, <<>>)
    IN  IF Len(tag_data) < \HD0 + \HC THEN NoAsset("err", tag_data)
        ELSE parts(nested_elements(tag_data, memory_address, \HD0, \H30, \H24, \H84))

(* 560230003 = 0x21646E73, which the implicit test compares the class with *)
IMPLICIT_EXEMPT == le32(560230003)

(* Result of one iteration of the loop over the tag array *)
OkTag(tag) == [st |-> "ok", tag |-> tag]
FailedTag(st) == [st |-> st, tag |-> <<>>]

(* from_cache_file, "Everything else...": the size of the data of the tag
   at offset, up to the tag array, the end of the meta data or the nearest
   following tag *)
potential_size(c, offset) ==
    LET checked == {j \in 0 .. c.tag_count - 1 :
                       /\ entry(c, j)[\H18 + 1] % 2 # 1
                       /\ word(entry(c, j), \H0) # SBSP}
        potential_offset(j) == address_to_offset(word(entry(c, j), \H14), Len(c.meta))
    IN  IF \E j \in checked : ~potential_offset(j).some
        THEN [st |-> "err", size |-> 0]
        ELSE [st |-> "ok",
              size |-> Min({IF offset < c.tag_array_start
                            THEN c.tag_array_start - offset
                            ELSE Len(c.meta) - offset}
                           \cup {potential_offset(j).val - offset :
                                    j \in {k \in checked :
                                              potential_offset(k).val > offset}})]

(* asset_data = match classes.0 { ... } *)
class_assets(c, classes, tag_data, memory_address) ==
    CASE classes[1] = BITM -> bitm_assets(c.d, tag_data, memory_address)
      [] classes[1] = SND  -> snd_assets(c.d, tag_data, memory_address)
      [] classes[1] = MOD2 ->
             mod2_assets(slice(c.d, c.model_data_offset, c.index_data_offset),
                         slice(c.d, c.index_data_offset, c.model_data_end),
                         tag_data, memory_address)
      [] OTHER -> NoAsset("ok", tag_data)

(* from_cache_file, iteration i of the loop over the tag array.  The memory
   address of an sbsp tag comes from its table record; one with the top bit
   set is outside the model (st "outside"), no input has one. *)
parse_tag(c, sbsps, i) ==
    LET tag == entry(c, i)
        classes == <<word(tag, \H0), word(tag, \H4), word(tag, \H8)>>
        implicit == tag[\H18 + 1] % 2 = 1
        memory_address_read == word(tag, \H14)
        located(name, sbsp) ==
            IF ~small(sbsp.tag_memory_address) THEN FailedTag("outside")
            ELSE OkTag(Tag(name, classes,
                           Some(slice(c.d, sbsp.tag_file_offset,
                                      sbsp.tag_file_offset + sbsp.tag_size)),
                           NoneSeq, implicit, NoneSeq,
                           Some(num(sbsp.tag_memory_address))))
        built(name, a) ==
            IF a.st # "ok" THEN FailedTag(a.st)
            ELSE OkTag(Tag(name, classes, Some(a.data), a.asset, implicit, NoneSeq,
                           Some(num(memory_address_read))))
        sized(name, offset, p) ==
            IF p.st # "ok" THEN FailedTag("err")
            ELSE built(name,
                       class_assets(c, classes, slice(c.meta, offset, offset + p.size),
                                    num(memory_address_read)))
        placed(name, offset) ==
            IF ~offset.some THEN FailedTag("err")
            ELSE sized(name, offset.val, potential_size(c, offset.val))
        named(name) ==
            IF name.st = "err" THEN FailedTag("err")
            ELSE IF implicit /\ classes[1] # IMPLICIT_EXEMPT
            THEN OkTag(Tag(name.val, classes, NoneSeq, NoneSeq, implicit,
                           Some(memory_address_read), NoneNat))
            ELSE IF classes[1] = SBSP
            THEN IF \A k \in 1 .. Len(sbsps) : sbsps[k].tag_index # i
                 THEN FailedTag("err")
                 ELSE located(name.val,
                              sbsps[CHOOSE k \in 1 .. Len(sbsps) :
                                        /\ sbsps[k].tag_index = i
                                        /\ \A j \in k + 1 .. Len(sbsps) :
                                               sbsps[j].tag_index # i])
            ELSE placed(name.val, address_to_offset(memory_address_read, Len(c.meta)))
        path(n) == IF ~n.some THEN FailedTag("err")
                   ELSE named(string_from_slice(c.meta, n.val))
    IN  path(address_to_offset(word(tag, \H10), Len(c.meta)))

(* Map::from_cache_file *)
from_cache_file(d) ==
    LET built(c, ts) ==
            IF \E k \in 1 .. Len(ts) : ts[k].st # "ok"
            THEN FailedParse(ts[CHOOSE k \in 1 .. Len(ts) :
                                    /\ ts[k].st # "ok"
                                    /\ \A j \in 1 .. k - 1 : ts[j].st = "ok"].st)
            ELSE ParsedMap(<<Game_from_u32(word(d, \H4)), MapType_from_u32(word(d, \H60))>>,
                           string_from_slice(d, \H20).val, string_from_slice(d, \H40).val,
                           [k \in 1 .. Len(ts) |-> ts[k].tag], c.scenario_tag)
        tagged(c, s) ==
            IF s.st # "ok" THEN FailedParse(s.st)
            ELSE built(c, SubSeq([k \in 1 .. c.tag_count |-> parse_tag(c, s.sbsps, k - 1)],
                                 1, c.tag_count))
        indexed(c) == IF c.st # "ok" THEN FailedParse(c.st)
                      ELSE tagged(c, sbsp_table(c))
        header(h) == IF h.st # "ok" THEN FailedParse(h.st)
                     ELSE indexed(tag_index_header(d, h))
    IN  header(cache_header(d))

-----------------------------------------------------------------------------
(* Map::as_cache_file *)

(* Second pass, what an arm of the class match hands back: the tag data
   rewritten and the streams it appended to; through is FALSE where the arm
   leaves the iteration with continue *)
Stored(st, data, resource_data, vertex_data, index_data, parts, through) ==
    [st |-> st, data |-> data, resource_data |-> resource_data,
     model_vertex_data |-> vertex_data, model_index_data |-> index_data,
     parts |-> parts, through |-> through]

(* bitm arm from bitmap i: the pixels asset_data[offset .. offset + size] are
   appended to the resource data, the offset made a file offset *)
RECURSIVE bitm_store(_, _, _, _, _, _, _)
bitm_store(data, asset_data, bo, i, count, resource_file_offset, resource_data) ==
    LET b == bo + i * \H30
        data_offset == field(word(data, b + \H18), Len(asset_data))
        data_size == field(word(data, b + \H1C), Len(asset_data))
    IN  IF i >= count THEN Stored("ok", data, resource_data, <<>>, <<>>, 0, TRUE)
        ELSE IF data[b + \HF + 1] % 2 # 0
        THEN bitm_store(data, asset_data, bo, i + 1, count, resource_file_offset,
                        resource_data)
        ELSE IF data_offset + data_size > Len(asset_data)
        THEN Stored("err", data, resource_data, <<>>, <<>>, 0, TRUE)
        ELSE bitm_store(write_u32(data, b + \H18,
                                  le32(resource_file_offset + Len(resource_data))),
                        asset_data, bo, i + 1, count, resource_file_offset,
                        resource_data
                            \o slice(asset_data, data_offset, data_offset + data_size))

bitm_resources(tag, memory_address, resource_file_offset, resource_data) ==
    LET tag_data == tag.data.val
        bitmaps(r) ==
            IF r.st = "err" THEN Stored("err", tag_data, resource_data, <<>>, <<>>, 0, TRUE)
            ELSE IF r.count = 0
            THEN Stored("ok", tag_data, resource_data, <<>>, <<>>, 0, FALSE)
            ELSE bitm_store(tag_data, tag.asset_data.val, num(r.address) - memory_address,
                            0, r.count, resource_file_offset, resource_data)
    IN  IF ~tag.asset_data.some
        THEN Stored("ok", tag_data, resource_data, <<>>, <<>>, 0, FALSE)
        ELSE IF Len(tag_data) < \H60 + \HC
        THEN Stored("err", tag_data, resource_data, <<>>, <<>>, 0, TRUE)
        ELSE bitmaps(Reflexive_serialize(tag_data, \H60, memory_address,
                                         memory_address + Len(tag_data), \H30))

(* snd! arm from element n of the permutations *)
RECURSIVE snd_store(_, _, _, _, _, _)
snd_store(data, asset_data, elems, n, resource_file_offset, resource_data) ==
    LET sound == elems[n]
        data_offset == field(word(data, sound + \H48), Len(asset_data))
        data_size == field(word(data, sound + \H40), Len(asset_data))
    IN  IF n > Len(elems) THEN Stored("ok", data, resource_data, <<>>, <<>>, 0, TRUE)
        ELSE IF data[sound + \H44 + 1] % 2 # 0
        THEN snd_store(data, asset_data, elems, n + 1, resource_file_offset,
                       resource_data)
        ELSE IF data_offset + data_size > Len(asset_data)
        THEN Stored("err", data, resource_data, <<>>, <<>>, 0, TRUE)
        ELSE snd_store(write_u32(data, sound + \H48,
                                 le32(resource_file_offset + Len(resource_data))),
                       asset_data, elems, n + 1, resource_file_offset,
                       resource_data
                           \o slice(asset_data, data_offset, data_offset + data_size))

snd_resources(tag, memory_address, resource_file_offset, resource_data) ==
    LET tag_data == tag.data.val
        sounds(r) ==
            IF r.st = "err" THEN Stored("err", tag_data, resource_data, <<>>, <<>>, 0, TRUE)
            ELSE IF r.count = 0
            THEN Stored("ok", tag_data, resource_data, <<>>, <<>>, 0, FALSE)
            ELSE snd_store(tag_data, tag.asset_data.val, r.elems, 1,
                           resource_file_offset, resource_data)
    IN  IF ~tag.asset_data.some
        THEN Stored("ok", tag_data, resource_data, <<>>, <<>>, 0, FALSE)
        ELSE IF Len(tag_data) < \H98 + \HC
        THEN Stored("err", tag_data, resource_data, <<>>, <<>>, 0, TRUE)
        ELSE sounds(nested_elements(tag_data, memory_address, \H98, \H48, \H3C, \H7C))

(* mod2 arm from element n of the parts *)
RECURSIVE mod2_store(_, _, _, _, _, _, _)
mod2_store(data, asset_data, elems, n, vertex_data, index_data, parts) ==
    LET part == elems[n]
        alen == Len(asset_data)
        moved == write_u32(
                     write_u32(
                         write_u32(data, part + \H58 + \HC, le32(Len(vertex_data))),
                         part + \H48 + \H4, le32(Len(index_data))),
                     part + \H48 + \H8, le32(Len(index_data)))
    IN  IF n > Len(elems) THEN Stored("ok", data, <<>>, vertex_data, index_data, parts, TRUE)
        ELSE IF \/ word(data, part + \H48 + \H8) # word(data, part + \H48 + \H4)
                \/ index_end(data, part, alen) > alen
                \/ vertex_end(data, part, alen) > alen
        THEN Stored("err", data, <<>>, vertex_data, index_data, parts, TRUE)
        ELSE mod2_store(moved, asset_data, elems, n + 1,
                        vertex_data \o slice(asset_data, vertex_offset(data, part, alen),
                                             vertex_end(data, part, alen)),
                        index_data \o slice(asset_data, index_offset(data, part, alen),
                                            index_end(data, part, alen)),
                        parts + 1)

mod2_resources(tag, memory_address, vertex_data, index_data, parts) ==
    LET tag_data == tag.data.val
        stored(r) ==
            IF r.st = "err" THEN Stored("err", tag_data, <<>>, vertex_data, index_data, parts, TRUE)
            ELSE IF r.count = 0
            THEN Stored("ok", tag_data, <<>>, vertex_data, index_data, parts, FALSE)
            ELSE mod2_store(tag_data, tag.asset_data.val, r.elems, 1, vertex_data,
                            index_data, parts)
    IN  IF ~tag.asset_data.some
        THEN Stored("ok", tag_data, <<>>, vertex_data, index_data, parts, FALSE)
        ELSE IF Len(tag_data) < \HD0 + \HC
        THEN Stored("err", tag_data, <<>>, vertex_data, index_data, parts, TRUE)
        ELSE stored(nested_elements(tag_data, memory_address, \HD0, \H30, \H24, \H84))

(* Vec::resize(n, 0) *)
resize(s, n) == IF Len(s) >= n THEN SubSeq(s, 1, n) ELSE s \o Zeros(n - Len(s))

(* Second pass, the iteration over one tag.  acc carries the copy of the
   tags made so far (new_tag_array) and the streams sbsp_data, resource_data,
   model_vertex_data, model_index_data with part_count. *)
second_pass_tag(tag, tag_array, resource_file_offset, acc) ==
    LET fail(st) == [st |-> st, acc |-> acc]
        keep(t) == [st |-> "ok", acc |-> [acc EXCEPT !.tags = Append(@, t)]]
        rewritten(t, r) ==
            [t EXCEPT !.data = Some(r.data),
                      !.asset_data = IF r.through THEN NoneSeq ELSE @]
        after_resource(t, r) ==
            IF r.st # "ok" THEN fail(r.st)
            ELSE [st |-> "ok",
                  acc |-> [acc EXCEPT !.tags = Append(@, rewritten(t, r)),
                                      !.resource_data = r.resource_data]]
        after_model(t, r) ==
            IF r.st # "ok" THEN fail(r.st)
            ELSE [st |-> "ok",
                  acc |-> [acc EXCEPT !.tags = Append(@, rewritten(t, r)),
                                      !.model_vertex_data = r.model_vertex_data,
                                      !.model_index_data = r.model_index_data,
                                      !.part_count = r.parts]]
        classed(t) ==
            CASE t.tag_class[1] = BITM ->
                     after_resource(t, bitm_resources(t, t.memory_address.val,
                                                      resource_file_offset,
                                                      acc.resource_data))
              [] t.tag_class[1] = SND ->
                     after_resource(t, snd_resources(t, t.memory_address.val,
                                                     resource_file_offset,
                                                     acc.resource_data))
              [] t.tag_class[1] = MOD2 ->
                     after_model(t, mod2_resources(t, t.memory_address.val,
                                                   acc.model_vertex_data,
                                                   acc.model_index_data,
                                                   acc.part_count))
              [] t.tag_class[1] = SBSP ->
                     [st |-> "ok",
                      acc |-> [acc EXCEPT
                                  !.tags = Append(@, [t EXCEPT !.data = NoneSeq,
                                                               !.asset_data = NoneSeq]),
                                  !.sbsp_data = @ \o t.data.val]]
              [] OTHER -> keep(t)
        referenced(r) ==
            IF r.st = "panic" THEN fail("panic")
            ELSE IF ~tag.memory_address.some THEN fail("panic")
            ELSE classed(set_references(tag, r.refs, 1))
    IN  IF tag.resource_index.some /\ tag.data.some THEN fail("err")
        ELSE IF ~tag.data.some THEN keep(tag)
        ELSE referenced(references(tag, tag_array))

RECURSIVE second_pass(_, _, _, _)
second_pass(tag_array, resource_file_offset, tag_index, acc) ==
    LET next(r) == IF r.st # "ok" THEN r
                   ELSE second_pass(tag_array, resource_file_offset, tag_index + 1, r.acc)
    IN  IF tag_index >= Len(tag_array) THEN [st |-> "ok", acc |-> acc]
        ELSE next(second_pass_tag(tag_array[tag_index + 1], tag_array,
                                  resource_file_offset, acc))

(* Third pass from tag_index: every tag that still has data is moved to the
   end of the tag data built so far; addresses keeps the address given to
   each tag (None for a tag without data) *)
RECURSIVE third_pass(_, _, _, _, _)
third_pass(new_tag_array, tag_index, first_tag_address, tag_meta_data, addresses) ==
    LET tag == new_tag_array[tag_index + 1]
        new_address == first_tag_address + Len(tag_meta_data)
        moved(r) ==
            IF r.st # "ok"
            THEN [st |-> "panic", tag_meta_data |-> tag_meta_data, addresses |-> addresses]
            ELSE third_pass(new_tag_array, tag_index + 1, first_tag_address,
                            tag_meta_data \o r.tag.data.val,
                            Append(addresses, Some(new_address)))
    IN  IF tag_index >= Len(new_tag_array)
        THEN [st |-> "ok", tag_meta_data |-> tag_meta_data, addresses |-> addresses]
        ELSE IF ~tag.data.some
        THEN third_pass(new_tag_array, tag_index + 1, first_tag_address, tag_meta_data,
                        Append(addresses, NoneNat))
        ELSE IF ~tag.memory_address.some
        THEN [st |-> "panic", tag_meta_data |-> tag_meta_data, addresses |-> addresses]
        ELSE moved(set_memory_address(tag, new_address))

(* the 0x20 bytes of the tag array for the tag at tag_index *)
cached_tag(tag, tag_index, path_address, address) ==
    tag.tag_class[1] \o tag.tag_class[2] \o tag.tag_class[3]
        \o tag_index_to_tag_id(tag_index)
        \o le32(path_address)
        \o (IF address.some THEN le32(address.val)
            ELSE IF tag.resource_index.some THEN tag.resource_index.val
            ELSE ZERO32)
        \o (IF tag.implicit THEN le32(1) ELSE ZERO32)
        \o ZERO32

(* the 0x800 bytes of the cache file header *)
header_bytes(m, name_latin1, build_latin1, file_size, meta_offset, tag_data_length) ==
    le32(\H68656164) \o Game_as_u32(m.kind[1]) \o le32(file_size) \o ZERO32
        \o le32(meta_offset) \o le32(tag_data_length) \o Zeros(\H20 - \H18)
        \o resize(name_latin1, \H20) \o resize(build_latin1, \H20)
        \o MapType_as_u32(m.kind[2]) \o Zeros(\H7FC - \H64) \o le32(\H666F6F74)

(* the 0x28 bytes of the tag data header *)
tag_header_bytes(principal, tag_count, part_count, model_data_offset, vertices_len, model_data_length) ==
    le32(BASE_ADDRESS + \H28)
        \o (IF principal.some THEN tag_index_to_tag_id(principal.val) ELSE NULL32)
        \o le32(\H00010000) \o le32(tag_count) \o le32(part_count)
        \o le32(model_data_offset) \o le32(part_count) \o le32(vertices_len)
        \o le32(model_data_length) \o le32(\H74616773)

OkFile(bytes) == [st |-> "ok", bytes |-> bytes]
FailedFile(st) == [st |-> st, bytes |-> <<>>]

(* Map::as_cache_file of the Map m with the tags ts and the principal tag *)
as_cache_file(m, ts, principal) ==
    LET name_latin1 == encode_latin1_string(m.name)
        build_latin1 == encode_latin1_string(m.build)
        path_length(k) == Len(encode_latin1_string(ts[k].tag_path).val) + 1
        tag_paths_length == sum_seq([k \in 1 .. Len(ts) |-> path_length(k)])
        resource_length ==
            sum_seq([k \in 1 .. Len(ts) |->
                        IF /\ ts[k].data.some
                           /\ ts[k].tag_class[1] \in {BITM, SND}
                           /\ ts[k].asset_data.some
                        THEN Len(ts[k].asset_data.val) ELSE 0])
        is_sbsp(k) == ts[k].data.some /\ ts[k].tag_class[1] = SBSP
        sbsp_length == sum_seq([k \in 1 .. Len(ts) |->
                                   IF is_sbsp(k) THEN Len(ts[k].data.val) ELSE 0])
        sbsp_count == Cardinality({k \in 1 .. Len(ts) : is_sbsp(k)})
        padded_sbsp_length == pad_32(sbsp_length)
        padded_resource_data_length == pad_32(resource_length)
        sbsp_file_offset == \H800
        resource_file_offset == sbsp_file_offset + sbsp_length
        cached_tag_array_len == \H20 * Len(ts)
        padded_tag_paths_length == pad_32(tag_paths_length)
        path_address(k) ==
            BASE_ADDRESS + \H28 + cached_tag_array_len
                + sum_seq([j \in 1 .. k - 1 |-> path_length(j)])
        tag_paths == resize(Flatten([k \in 1 .. Len(ts) |->
                                        encode_latin1_string(ts[k].tag_path).val \o <<0>>]),
                            padded_tag_paths_length)
        first_tag_address ==
            BASE_ADDRESS + \H28 + cached_tag_array_len + padded_tag_paths_length
        file(acc, third, model_data_length) ==
            LET model_data_offset ==
                    padded_sbsp_length + padded_resource_data_length + \H800
                meta_offset == model_data_offset + model_data_length
                tag_data ==
                    tag_header_bytes(principal, Len(ts), acc.part_count, model_data_offset,
                                     Len(acc.model_vertex_data), model_data_length)
                        \o Flatten([k \in 1 .. Len(ts) |->
                                       cached_tag(ts[k], k - 1, path_address(k),
                                                  third.addresses[k])])
                        \o tag_paths \o third.tag_meta_data
            IN  IF meta_offset + Len(tag_data) > \H7FFFFFFF THEN FailedFile("err")
                ELSE OkFile(header_bytes(m, name_latin1.val, build_latin1.val,
                                         meta_offset + Len(tag_data), meta_offset,
                                         Len(tag_data))
                                \o resize(acc.sbsp_data, padded_sbsp_length)
                                \o resize(acc.resource_data, padded_resource_data_length)
                                \o resize(acc.model_vertex_data \o acc.model_index_data,
                                          model_data_length)
                                \o tag_data)
        built(acc, third) ==
            IF third.st # "ok" THEN FailedFile(third.st)
            ELSE file(acc, third,
                      pad_32(Len(acc.model_vertex_data) + Len(acc.model_index_data)))
        second(r) ==
            IF r.st # "ok" THEN FailedFile(r.st)
            ELSE built(r.acc, third_pass(r.acc.tags, 0, first_tag_address, <<>>, <<>>))
    IN  IF name_latin1.st = "err" THEN FailedFile("err")
        ELSE IF Len(name_latin1.val) > \H1F THEN FailedFile("err")
        ELSE IF build_latin1.st = "err" THEN FailedFile("err")
        ELSE IF Len(build_latin1.val) > \H1F THEN FailedFile("err")
        ELSE IF \E k \in 1 .. Len(ts) : encode_latin1_string(ts[k].tag_path).st = "err"
        THEN FailedFile("err")
        ELSE IF principal.some /\ principal.val > Len(ts) THEN FailedFile("err")
        ELSE IF ~principal.some /\ sbsp_count # 0 THEN FailedFile("err")
        ELSE second(second_pass(ts, resource_file_offset, 0,
                                [tags |-> <<>>, sbsp_data |-> <<>>, resource_data |-> <<>>,
                                 model_vertex_data |-> <<>>, model_index_data |-> <<>>,
                                 part_count |-> 0]))

-----------------------------------------------------------------------------
(* Cache files to parse.  A file is laid out as header, lead bytes of       *)
(* padding, the sbsp data, the bitmap pixels, and the tag data: tag data    *)
(* header, tag array, tag paths, slack bytes of padding, the data of the    *)
(* tags that are not sbsp tags, tail spare bytes.                           *)

SBSP_MIN == \H150
SCNR_HEADER == \H5B0
PIXELS == 8
SBSP_ADDRESS == BASE_ADDRESS + \H200000

PATH_B == <<98>>
PATH_P == <<112>>
NAME_RAW == <<114, 97, 119>>
BUILD_RAW == <<48, 49>>

(* the positions of the tags of a kind, in order; the rank of k among them *)
of_kind(descs, kind) ==
    SelectSeq([k \in 1 .. Len(descs) |-> k], LAMBDA k : descs[k].kind = kind)
rank(list, k) == CHOOSE j \in 1 .. Len(list) : list[j] = k

(* sbsp data of len bytes: a marker, no clusters, spare bytes past 0x150 *)
SbspData(len, j) ==
    [k \in 1 .. len |-> IF k = 1 THEN \HB5 ELSE IF k = 2 THEN j
                        ELSE IF k > SBSP_MIN THEN \HE0 ELSE 0]

PixelData(j) == <<\HA0 + j, 1, 2, 3, 4, 5, 6, 7>>

(* one record of the scenario's sbsp table *)
SbspRecord(cls, target, file_offset, size, j) ==
    le32(file_offset) \o le32(size) \o le32(SBSP_ADDRESS + \H1000 * j) \o ZERO32
        \o Dependency(cls, target)

(* bitm with one internal bitmap (+0xF bit 0 clear) whose pixels are at
   pixel_offset of the file, after the elements of its references *)
RawBitmData(desc, base, pixel_offset) ==
    LET n == Len(desc.deps) IN
    put(Zeros(\H6C), \H60, ReflexiveBytes(n + 1, base + \H6C))
        \o Concat([k \in 1 .. n |-> BitmElement(desc.deps[k])])
        \o put(put(put(Zeros(\H30), \H18, le32(pixel_offset)), \H1C, le32(PIXELS)),
               \H20, NULL32)

RawFile(cfg) ==
    LET descs == cfg.descs
        n == Len(descs)
        cls == [k \in 1 .. n |-> descs[k].class]
        sb == of_kind(descs, "sbsp")
        px == SelectSeq([k \in 1 .. n |-> k], LAMBDA k : descs[k].pixels)
        sbsp_offset(j) == \H800 + cfg.lead + (j - 1) * pad_32(cfg.sbsp_len)
        pixel_offset(j) == \H800 + cfg.lead + Len(sb) * pad_32(cfg.sbsp_len)
                               + (j - 1) * PIXELS
        meta_offset == pixel_offset(Len(px) + 1)
        paths == Concat([k \in 1 .. n |-> descs[k].path \o <<0>>])
        path_address(k) ==
            BASE_ADDRESS + \H28 + \H20 * n
                + sum_seq([j \in 1 .. k - 1 |-> Len(descs[j].path) + 1])
        data_len(k) ==
            CASE descs[k].kind = "sbsp" -> 0
              [] descs[k].kind = "scnr" ->
                     SCNR_HEADER + 8 * Len(descs[k].pred) + 32 * Len(sb)
              [] descs[k].kind = "bitm" ->
                     \H6C + \H30 * (Len(descs[k].deps) + (IF descs[k].pixels THEN 1 ELSE 0))
              [] OTHER -> 16 * Len(descs[k].deps) + 16
        address(k) ==
            BASE_ADDRESS + \H28 + \H20 * n + pad_32(Len(paths)) + cfg.slack
                + sum_seq([j \in 1 .. k - 1 |-> data_len(j)])
        table(k) ==
            Concat([j \in 1 .. Len(sb) |->
                       SbspRecord(cls, sb[j] - 1, sbsp_offset(j), cfg.sbsp_len, j)])
        scnr(k) ==
            put(ScnrData(descs[k], cls, address(k), SCNR_HEADER), \H5A4,
                IF Len(sb) = 0 THEN Zeros(12)
                ELSE ReflexiveBytes(Len(sb),
                                    address(k) + SCNR_HEADER + 8 * Len(descs[k].pred)))
                \o table(k)
        data(k) ==
            CASE descs[k].kind = "sbsp" -> <<>>
              [] descs[k].kind = "scnr" -> scnr(k)
              [] descs[k].kind = "bitm" /\ descs[k].pixels ->
                     RawBitmData(descs[k], address(k), pixel_offset(rank(px, k)))
              [] descs[k].kind = "bitm" -> BitmData(descs[k], address(k))
              [] OTHER -> GenData(descs[k], cls, address(k))
        cached(k) ==
            descs[k].class \o NULL32 \o NULL32 \o tag_index_to_tag_id(k - 1)
                \o le32(path_address(k))
                \o (IF descs[k].kind = "sbsp" THEN ZERO32 ELSE le32(address(k)))
                \o ZERO32 \o ZERO32
        meta ==
            le32(BASE_ADDRESS + \H28)
                \o (IF cfg.principal.some THEN tag_index_to_tag_id(cfg.principal.val)
                    ELSE NULL32)
                \o le32(\H00010000) \o le32(n) \o ZERO32 \o le32(meta_offset) \o ZERO32
                \o ZERO32 \o ZERO32 \o le32(\H74616773)
                \o Concat([k \in 1 .. n |-> cached(k)])
                \o paths \o Zeros(pad_32(Len(paths)) - Len(paths)) \o Zeros(cfg.slack)
                \o Concat([k \in 1 .. n |-> data(k)])
                \o [k \in 1 .. cfg.tail |-> \H77]
    IN  le32(\H68656164) \o le32(\H261) \o le32(meta_offset + Len(meta)) \o ZERO32
            \o le32(meta_offset) \o le32(Len(meta)) \o Zeros(8)
            \o NAME_RAW \o Zeros(\H20 - Len(NAME_RAW))
            \o BUILD_RAW \o Zeros(\H20 - Len(BUILD_RAW))
            \o le32(\H1) \o Zeros(\H7FC - \H64) \o le32(\H666F6F74)
            \o Zeros(cfg.lead)
            \o Concat([j \in 1 .. Len(sb) |->
                          SbspData(cfg.sbsp_len, j)
                              \o Zeros(pad_32(cfg.sbsp_len) - cfg.sbsp_len)])
            \o Concat([j \in 1 .. Len(px) |-> PixelData(j)])
            \o meta

RawDesc(kind, class, path, deps, pred, pixels) ==
    [kind |-> kind, class |-> class, path |-> path, deps |-> deps, pred |-> pred,
     pixels |-> pixels]

(* a scenario with its sbsp and a bitmap it predicts; the same behind a
   bitmap nothing refers to; three tags and no scenario *)
LayoutA == [descs |-> <<RawDesc("scnr", SCNR, PATH_S, <<>>, <<2>>, FALSE),
                        RawDesc("sbsp", SBSP, PATH_B, <<>>, <<>>, FALSE),
                        RawDesc("bitm", BITM, PATH_P, <<>>, <<>>, TRUE)>>,
            principal |-> Some(0)]
LayoutB == [descs |-> <<RawDesc("bitm", BITM, PATH_UNUSED, <<>>, <<>>, FALSE),
                        RawDesc("scnr", SCNR, PATH_S, <<>>, <<>>, FALSE),
                        RawDesc("sbsp", SBSP, PATH_B, <<>>, <<>>, FALSE)>>,
            principal |-> Some(1)]
LayoutC == [descs |-> <<RawDesc("gen", TAGC, PATH_X, <<1>>, <<>>, FALSE),
                        RawDesc("gen", WEAP, PATH_Y, <<>>, <<>>, FALSE),
                        RawDesc("gen", WEAP, PATH_Z, <<>>, <<>>, FALSE)>>,
            principal |-> NoneNat]

RawConfig(layout, lead, sbsp_len, slack, tail) ==
    [descs |-> layout.descs, principal |-> layout.principal, lead |-> lead,
     sbsp_len |-> sbsp_len, slack |-> slack, tail |-> tail]

RawConfigs ==
    {RawConfig(l, lead, len, slack, 0) :
        l \in {LayoutA, LayoutB}, lead \in {0, 4},
        len \in {SBSP_MIN, SBSP_MIN + 2}, slack \in {0, 16}}
    \cup {RawConfig(LayoutC, 0, SBSP_MIN, slack, tail) :
             slack \in {0, 16}, tail \in {0, 1, 7}}

-----------------------------------------------------------------------------
(* Passes over a Map: parse a cache file, prune the tag array, encode.      *)
(* The Map parsed last is map (kind, name, build) with tags and             *)
(* principal_tag; cache_file is the buffer read or written last; hist lists *)
(* the calls made with their results; origin is what the run started from.  *)

MaxPasses == 2

(* Map { kind : (CustomEdition, UserInterface), name : "empty", build :
   "test", tag_array : TagArray::new(Vec::new(), None) } *)
EmptyMap ==
    [some |-> TRUE,
     kind |-> <<Game_from_u32(le32(\H261)), MapType_from_u32(le32(\H2))>>,
     name |-> <<101, 109, 112, 116, 121>>, build |-> <<116, 101, 115, 116>>]

Call(op, st, m, ts, principal, bytes) ==
    [op |-> op, st |-> st, map |-> m, tags |-> ts, principal |-> principal,
     bytes |-> bytes]

encodes == Cardinality({k \in 1 .. Len(hist) : hist[k].op = "encode"})

InitMap ==
    /\ \/ /\ origin \in RawConfigs
          /\ cache_file = RawFile(origin)
          /\ map = NoMap
          /\ pc = "file"
       \/ /\ origin = [descs |-> <<>>, principal |-> NoneNat]
          /\ cache_file = <<>>
          /\ map = EmptyMap
          /\ pc = "map"
    /\ tags = <<>>
    /\ principal_tag = NoneNat
    /\ last = NoOp
    /\ status = "ok"
    /\ steps = 0
    /\ hist = <<>>

Failed(st) == IF st = "panic" THEN "panicked" ELSE st

(* let map = Map::from_cache_file(&cache_file) *)
Parse ==
    /\ pc = "file"
    /\ status = "ok"
    /\ LET done(r) ==
               /\ hist' = Append(hist, Call("parse", r.st,
                                            [some |-> r.st = "ok", kind |-> r.kind,
                                             name |-> r.name, build |-> r.build],
                                            r.tags, r.principal, <<>>))
               /\ IF r.st = "ok"
                  THEN /\ map' = [some |-> TRUE, kind |-> r.kind, name |-> r.name,
                                  build |-> r.build]
                       /\ tags' = r.tags
                       /\ principal_tag' = r.principal
                       /\ pc' = "map"
                       /\ status' = "ok"
                  ELSE /\ UNCHANGED <<map, tags, principal_tag>>
                       /\ pc' = "failed"
                       /\ status' = Failed(r.st)
       IN  done(from_cache_file(cache_file))
    /\ steps' = steps + 1
    /\ UNCHANGED <<cache_file, origin, last>>

(* map.tag_array.remove_dead_tags() *)
RemoveDeadTagsOfMap ==
    /\ pc = "map"
    /\ status = "ok"
    /\ encodes < MaxPasses
    /\ LET done(r) ==
               /\ hist' = Append(hist, Call("remove_dead_tags", r.st, map,
                                            IF r.st = "ok" THEN r.tags ELSE tags,
                                            principal_tag, <<>>))
               /\ tags' = IF r.st = "ok" THEN r.tags ELSE tags
               /\ pc' = IF r.st = "ok" THEN "pruned" ELSE "failed"
               /\ status' = IF r.st = "ok" THEN "ok" ELSE Failed(r.st)
       IN  done(remove_dead_tags(tags, principal_tag))
    /\ steps' = steps + 1
    /\ UNCHANGED <<cache_file, map, principal_tag, origin, last>>

(* let cache_file = map.as_cache_file() *)
Encode ==
    /\ pc \in {"map", "pruned"}
    /\ status = "ok"
    /\ encodes < MaxPasses
    /\ LET done(r) ==
               /\ hist' = Append(hist, Call("encode", r.st, map, tags, principal_tag,
                                            r.bytes))
               /\ cache_file' = IF r.st = "ok" THEN r.bytes ELSE cache_file
               /\ pc' = IF r.st = "ok" THEN "file" ELSE "failed"
               /\ status' = IF r.st = "ok" THEN "ok" ELSE Failed(r.st)
       IN  done(as_cache_file(map, tags, principal_tag))
    /\ steps' = steps + 1
    /\ UNCHANGED <<map, tags, principal_tag, origin, last>>

NextMap == Parse \/ RemoveDeadTagsOfMap \/ Encode

SpecMap == InitMap /\ [][NextMap]_vars

-----------------------------------------------------------------------------
(* Claims about the passes.                                                 *)

(* tag t as it reads once moved to the memory address of its counterpart:
   data bytes are compared with the pointers in them relocated *)
relocated(t, address) ==
    IF t.data.some /\ t.memory_address.some /\ address.some
       /\ address.val # t.memory_address.val
    THEN set_memory_address(t, address.val).tag
    ELSE t

same_structure(a, b) ==
    /\ Len(a.tags) = Len(b.tags)
    /\ a.principal = b.principal
    /\ \A k \in 1 .. Min({Len(a.tags), Len(b.tags)}) :
           /\ a.tags[k].tag_path = b.tags[k].tag_path
           /\ a.tags[k].tag_class = b.tags[k].tag_class
           /\ a.tags[k].asset_data = b.tags[k].asset_data
           /\ a.tags[k].data.some = b.tags[k].data.some
           /\ relocated(a.tags[k], b.tags[k].memory_address).data = b.tags[k].data

(* the calls k, k + 1, ... of the history are the operations ops *)
calls(k, ops) ==
    /\ k + Len(ops) - 1 <= Len(hist)
    /\ \A j \in 1 .. Len(ops) : hist[k + j - 1].op = ops[j]

(* C1: for every buffer raw that parse accepts, encode(parse(raw)) succeeds,
   parse accepts it, and the Map it yields equals parse(raw) structurally:
   same number and order of tags, same paths and class triples, same
   principal tag, same data bytes (pointers relocated) and same asset_data
   bytes per tag. *)
C1_RoundTripStable ==
    \A k \in 1 .. Len(hist) :
        (calls(k, <<"parse", "encode">>) /\ hist[k].st = "ok") =>
            /\ hist[k + 1].st = "ok"
            /\ calls(k, <<"parse", "encode", "parse">>) =>
                   /\ hist[k + 2].st = "ok"
                   /\ same_structure(hist[k], hist[k + 2])

(* C2: for every buffer raw that parse accepts, the second encode equals the
   first: encode(parse(encode(parse(raw)))) is byte for byte
   encode(parse(raw)). *)
C2_SecondEncodeEqualsFirst ==
    \A k \in 1 .. Len(hist) :
        (calls(k, <<"parse", "encode", "parse">>) /\ hist[k].st = "ok") =>
            /\ hist[k + 2].st = "ok"
            /\ calls(k, <<"parse", "encode", "parse", "encode">>) =>
                   /\ hist[k + 3].st = "ok"
                   /\ hist[k + 3].bytes = hist[k + 1].bytes

(* C3: encoding the Map with an empty tag array and no principal tag (kind
   (CustomEdition, UserInterface), name "empty", build "test") and parsing
   the result succeeds and yields the same name, build and kind and zero
   tags. *)
C3_EmptyMapRoundTrips ==
    (calls(1, <<"encode">>) /\ hist[1].map = EmptyMap /\ hist[1].tags = <<>>) =>
        /\ hist[1].st = "ok"
        /\ calls(1, <<"encode", "parse">>) =>
               /\ hist[2].st = "ok"
               /\ hist[2].map = EmptyMap
               /\ Len(hist[2].tags) = 0

(* the history is a run of passes (parse; remove_dead_tags; encode) *)
in_passes ==
    \A k \in 1 .. Len(hist) :
        hist[k].op = <<"encode", "parse", "remove_dead_tags">>[(k % 3) + 1]

(* C4: starting from a buffer that parse accepts, repeating the pass (parse;
   remove_dead_tags; encode) never produces a parse error, an encode error or
   a panic. *)
C4_PassesNeverFail ==
    (Len(hist) > 0 /\ in_passes /\ hist[1].st = "ok") =>
        \A k \in 1 .. Len(hist) : hist[k].st = "ok"

-----------------------------------------------------------------------------
(* Claims about insert.                                                     *)

(* a tag of ts has the path and the class triple of tag t *)
C11_duplicate(ts, t) ==
    \E k \in 1 .. Len(ts) : ts[k].tag_path = t.tag_path /\ ts[k].tag_class = t.tag_class

(* a reference of origin tag i targets a tag whose (path, primary class) no
   tag of ts has *)
C11_missing(ts, org, i) ==
    \E j \in ref_targets(org, i) :
        ~\E k \in 1 .. Len(ts) :
            /\ ts[k].tag_path = org[j + 1].tag_path
            /\ ts[k].tag_class[1] = org[j + 1].tag_class[1]

(* C11: insert(origin, idx) returns Err exactly when the destination holds a
   tag with the path and class triple of the origin tag or a reference of
   the origin tag targets a tag whose (path, primary class) is absent from
   the destination; when it returns Err the destination (tags, their order
   and data, principal_tag) and the origin array are unchanged. *)
C11_InsertFailsExactly ==
    [][(last'.op = "insert" /\ steps' = steps + 1 /\ last'.st # "panic") =>
          /\ (last'.st = "err") <=>
                 \/ C11_duplicate(tags, origin.tags[last'.arg + 1])
                 \/ C11_missing(tags, origin.tags, last'.arg)
          /\ last'.st = "err" =>
                 /\ tags' = tags
                 /\ principal_tag' = principal_tag
                 /\ origin' = origin]_vars

(* an insert refused for a missing target alone, by a destination that
   holds tags *)
C11_Witness ==
    /\ last.op = "insert" /\ last.st = "err"
    /\ Len(last.pre) > 0
    /\ ~C11_duplicate(last.pre, origin.tags[last.arg + 1])
    /\ C11_missing(last.pre, origin.tags, last.arg)

(* the first tag of ts with the (path, primary class) of t *)
C12_index(ts, t) ==
    Min({k \in 0 .. Len(ts) - 1 :
            /\ ts[k + 1].tag_path = t.tag_path
            /\ ts[k + 1].tag_class[1] = t.tag_class[1]})

(* C12: when insert(origin, idx) returns Ok(k), k is the previous length of
   the destination, the destination has one more tag, the tag at k has the
   path and class triple of the origin tag, every tag present before is
   unchanged at its index, and each reference of the new tag holds the
   identity of the destination index of the tag with the (path, primary
   class) of the origin target. *)
C12_InsertAppends ==
    (last.op = "insert" /\ last.st = "ok") =>
        /\ last.ret = Len(last.pre)
        /\ Len(tags) = Len(last.pre) + 1
        /\ SubSeq(tags, 1, Len(last.pre)) = last.pre
        /\ same_tag(tags[last.ret + 1], origin.tags[last.arg + 1])
        /\ LET org == origin.tags
               stored(r) == word(tags[last.ret + 1].data.val, identity_offset(r))
               ok(rs) ==
                   \A n \in 1 .. Len(rs.refs) :
                       stored(rs.refs[n])
                         = tag_index_to_tag_id(
                               C12_index(last.pre, org[rs.refs[n].tag_index + 1]))
           IN  ok(references(org[last.arg + 1], org))

(* an insert that succeeded with a reference whose target has another index
   in the destination than in the origin *)
C12_Witness ==
    /\ last.op = "insert" /\ last.st = "ok"
    /\ \E j \in ref_targets(origin.tags, last.arg) :
           C12_index(last.pre, origin.tags[j + 1]) # j

-----------------------------------------------------------------------------
(* Arrays at the limit of 65,535 tags.                                      *)

TAG_LIMIT == 65535
Room == 2

(* Tag::new(path, classes, None, None, false, None, None) *)
FILLER == Tag(<<102>>, <<WEAP>> \o NO_CLASS, NoneSeq, NoneSeq, FALSE, NoneSeq, NoneNat)

(* TagArray::new(vec![filler; n], None) *)
FullArray(n) ==
    [tags |-> SubSeq([i \in 1 .. TAG_LIMIT |-> FILLER], 1, n), principal |-> NoneNat]

(* origin arrays: three tags without references, a chain x -> y -> z and a
   cycle x -> y -> z -> x *)
FullOrigins ==
    {[tags |-> ArrTags(f.descs), principal |-> f.principal] :
        f \in {g \in FamilyC :
                  <<g.descs[1].deps[1], g.descs[2].deps[1], g.descs[3].deps[1]>>
                      \in {<<NULL_INDEX, NULL_INDEX, NULL_INDEX>>,
                           <<1, 2, NULL_INDEX>>, <<1, 2, 0>>}}}

InitFull ==
    /\ origin \in FullOrigins
    /\ \E n \in TAG_LIMIT - Room .. TAG_LIMIT :
          /\ tags = FullArray(n).tags
          /\ principal_tag = FullArray(n).principal
    /\ last = NoOp
    /\ status = "ok"
    /\ steps = 0
    /\ cache_file = <<>>
    /\ map = NoMap
    /\ pc = "array"
    /\ hist = <<>>

NextFull ==
    \/ \E k \in 0 .. 2 : Insert(k)
    \/ \E k \in 0 .. 2 : InsertRecursive(k)

SpecFull == InitFull /\ [][NextFull]_vars

(* C13: the number of tags never exceeds 65,535 after any sequence of insert
   and insert_recursive calls, and a call that has a tag to push into an
   array of 65,535 tags fails fatally instead of pushing a 65,536th tag. *)
C13_AtMost65535Tags ==
    /\ Len(tags) <= 65535
    /\ (/\ last.op \in {"insert", "insert_recursive"}
        /\ Len(last.pre) = 65535
        /\ last.st # "err") => last.st = "panic"

-----------------------------------------------------------------------------
(* Calls of single functions: origin is the call to make (the function and  *)
(* its arguments), last the call made with what it returned.                *)

Returned(op, arg, st, ret) == [op |-> op, arg |-> arg, st |-> st, ret |-> ret]

(* tag_index_to_tag_id(index) for every index below 65536 and 0xFFFFFFFF *)
TagIdCalls ==
    {[fn |-> "tag_index_to_tag_id", index |-> i] : i \in 0 .. 65535 \cup {NULL_INDEX}}

CallTagIndexToTagId ==
    /\ pc = "call" /\ steps = 0
    /\ origin.fn = "tag_index_to_tag_id"
    /\ last' = Returned(origin.fn, origin.index, "ok", tag_index_to_tag_id(origin.index))
    /\ steps' = 1
    /\ UNCHANGED <<tags, principal_tag, origin, status, cache_file, map, pc, hist>>

(* C14: for every index i below 65536, tag_index_to_tag_id(i) is
   ((i & 0xFFFF) | ((i + 0xE174) << 16)) modulo 2^32, its low 16 bits are i,
   and tag_index_to_tag_id(0xFFFFFFFF) is 0xFFFFFFFF. *)
C14_TagIdOfIndex ==
    last.op = "tag_index_to_tag_id" =>
        IF last.arg = NULL_INDEX THEN last.ret = <<255, 255, 255, 255>>
        ELSE /\ last.ret[1] + 256 * last.ret[2] = last.arg
             /\ last.ret[3] + 256 * last.ret[4] = (last.arg + 57716) % 65536
             /\ \A k \in 1 .. 4 : last.ret[k] \in 0 .. 255
             /\ lo16(last.ret) = last.arg

(* the identity of the last index, whose high half wraps *)
C14_Witness ==
    /\ last.op = "tag_index_to_tag_id"
    /\ last.arg = 65535
    /\ last.ret = <<255, 255, 115, 225>>

(* A tag of class weap with len bytes of data at address base. *)
MaxData == 3
HIGH_ADDRESS == \H7FFFFF00

PlainTag(len, base) ==
    Tag(<<112>>, <<WEAP>> \o NO_CLASS, Some(Zeros(len)), NoneSeq, FALSE, NoneSeq, Some(base))

(* memory_address_from_offset(offset) for the offsets up to two past the
   end; offset_from_memory_address(address) for the addresses from two
   below the base to two past the end, 0, 2^31 and 0xFFFFFFFF *)
PlainTags ==
    {PlainTag(len, base) : len \in 0 .. MaxData, base \in {BASE_ADDRESS, HIGH_ADDRESS}}

AddressesAround(tag) ==
    {le32(tag.memory_address.val + k) : k \in -2 .. MaxData + 2}
        \cup {ZERO32, <<0, 0, 0, 128>>, NULL32}

AddressCalls ==
    {[fn |-> "memory_address_from_offset", tag |-> t, offset |-> o] :
        t \in PlainTags, o \in 0 .. MaxData + 2}
    \cup UNION {{[fn |-> "offset_from_memory_address", tag |-> t, address |-> a] :
                    a \in AddressesAround(t)} : t \in PlainTags}

CallMemoryAddressFromOffset ==
    /\ pc = "call" /\ steps = 0
    /\ origin.fn = "memory_address_from_offset"
    /\ last' = Returned(origin.fn, [tag |-> origin.tag, offset |-> origin.offset], "ok",
                        memory_address_from_offset(origin.tag, origin.offset))
    /\ steps' = 1
    /\ UNCHANGED <<tags, principal_tag, origin, status, cache_file, map, pc, hist>>

CallOffsetFromMemoryAddress ==
    /\ pc = "call" /\ steps = 0
    /\ origin.fn = "offset_from_memory_address"
    /\ last' = Returned(origin.fn, [tag |-> origin.tag, address |-> origin.address], "ok",
                        offset_from_memory_address(origin.tag, origin.address))
    /\ steps' = 1
    /\ UNCHANGED <<tags, principal_tag, origin, status, cache_file, map, pc, hist>>

(* tags to relocate: the tags of a generic array (a reflexive that points
   into the tag), a bitm whose bitmaps reflexive points one past the end, a
   scnr without pointers, a scnr whose slot at 0x34 points into the tag and
   a scnr whose slot at 0x34 points past the end of the tag *)
ScnrWithSlot(value) ==
    Tag(PATH_S, <<SCNR>> \o NO_CLASS,
        Some(put(Zeros(SCNR_HEADER), \H34, le32(value))), NoneSeq, FALSE, NoneSeq,
        Some(BASE_ADDRESS + \H1000))

BitmAtEnd ==
    Tag(PATH_P, <<BITM>> \o NO_CLASS,
        Some(put(Zeros(\H6C), \H60, ReflexiveBytes(1, BASE_ADDRESS + \H206C))),
        NoneSeq, FALSE, NoneSeq, Some(BASE_ADDRESS + \H2000))

RelocatedTags ==
    {ArrTag(f.descs, i) : f \in FamilyC, i \in 1 .. 3}
    \cup {BitmAtEnd, ScnrWithSlot(0), ScnrWithSlot(BASE_ADDRESS + \H1100),
          ScnrWithSlot(BASE_ADDRESS + \H2000)}

SetMemoryAddressCalls ==
    {[fn |-> "set_memory_address", tag |-> t, new_address |-> a] :
        t \in RelocatedTags,
        a \in {BASE_ADDRESS, BASE_ADDRESS + \H1000, BASE_ADDRESS + \H1004,
               BASE_ADDRESS + \H2000, BASE_ADDRESS + \H10000}}

CallSetMemoryAddress ==
    /\ pc = "call" /\ steps = 0
    /\ origin.fn = "set_memory_address"
    /\ LET done(r) ==
               last' = Returned(origin.fn,
                                [tag |-> origin.tag, new_address |-> origin.new_address],
                                r.st, r.tag)
       IN  done(set_memory_address(origin.tag, origin.new_address))
    /\ steps' = 1
    /\ UNCHANGED <<tags, principal_tag, origin, status, cache_file, map, pc, hist>>

(* arrays whose tags references() enumerates: the arrays of three tags, and
   a jpt! tag with a weap tag, its dependency at 0x114 holding the identity
   of index target *)
JptTag(target) ==
    Tag(<<106>>, <<JPT>> \o NO_CLASS,
        Some(put(put(Zeros(\H124), \H114, WEAP), \H120, tag_index_to_tag_id(target))),
        NoneSeq, FALSE, NoneSeq, Some(BASE_ADDRESS + \H1000))

JptArrays == {<<JptTag(target), ArrTag(LayoutC.descs, 2)>> : target \in {NULL_INDEX, 1, 5}}

ReferencesCalls ==
    UNION {{[fn |-> "references", tag_array |-> ts, index |-> i] : i \in 0 .. Len(ts) - 1} :
              ts \in {a.tags : a \in Arrays} \cup JptArrays}

(* tag_array.tags()[index].references(&tag_array) *)
CallReferences ==
    /\ pc = "call" /\ steps = 0
    /\ origin.fn = "references"
    /\ LET done(r) ==
               last' = Returned(origin.fn,
                                [tag_array |-> origin.tag_array, index |-> origin.index],
                                r.st, r.refs)
       IN  done(references(origin.tag_array[origin.index + 1], origin.tag_array))
    /\ steps' = 1
    /\ UNCHANGED <<tags, principal_tag, origin, status, cache_file, map, pc, hist>>

InitCall ==
    /\ origin \in TagIdCalls \cup AddressCalls \cup SetMemoryAddressCalls
                    \cup ReferencesCalls
    /\ tags = <<>>
    /\ principal_tag = NoneNat
    /\ last = NoOp
    /\ status = "ok"
    /\ steps = 0
    /\ cache_file = <<>>
    /\ map = NoMap
    /\ pc = "call"
    /\ hist = <<>>

NextCall ==
    \/ CallTagIndexToTagId
    \/ CallMemoryAddressFromOffset
    \/ CallOffsetFromMemoryAddress
    \/ CallSetMemoryAddress
    \/ CallReferences

SpecCall == InitCall /\ [][NextCall]_vars

(* C15: after set_memory_address(A') on a tag with data at address A,
   memory_address is A', every discovered pointer slot whose value p was in
   [A, A + len) holds p + (A' - A), every discovered slot whose value was
   outside that range is unchanged, and the other bytes and the length of
   data are unchanged. *)
C15_RelocatesPointersInRange ==
    last.op = "set_memory_address" =>
        LET t == last.arg.tag
            A == t.memory_address.val
            L == Len(t.data.val)
            slots(p) == {p.ptrs[k] : k \in 1 .. Len(p.ptrs)}
            held(S) ==
                /\ \A o \in S :
                       LET p == word(t.data.val, o) IN
                       word(last.ret.data.val, o)
                         = IF small(p) /\ num(p) >= A /\ num(p) < A + L
                           THEN le32(num(p) + last.arg.new_address - A)
                           ELSE p
                /\ \A k \in 1 .. L :
                       (~\E o \in S : k \in o + 1 .. o + 4) =>
                           last.ret.data.val[k] = t.data.val[k]
        IN  /\ last.st = "ok"
            /\ last.ret.memory_address = Some(last.arg.new_address)
            /\ Len(last.ret.data.val) = L
            /\ held(slots(p_pointers(t)))

(* C20: memory_address_from_offset(o) is B + o exactly when o <= L and None
   otherwise; offset_from_memory_address(a) is a - B exactly when a >= B and
   a - B <= L and None otherwise; offset_from_memory_address of
   memory_address_from_offset(o) is o for every o in [0, L]. *)
C20_AddressOffsetMaps ==
    LET B == last.arg.tag.memory_address.val
        L == Len(last.arg.tag.data.val)
    IN  /\ last.op = "memory_address_from_offset" =>
               /\ last.ret = IF last.arg.offset <= L THEN Some(B + last.arg.offset)
                             ELSE NoneNat
               /\ last.arg.offset <= L =>
                      offset_from_memory_address(last.arg.tag, le32(last.ret.val))
                        = Some(last.arg.offset)
        /\ last.op = "offset_from_memory_address" =>
               last.ret = IF /\ small(last.arg.address)
                             /\ num(last.arg.address) >= B
                             /\ num(last.arg.address) - B <= L
                          THEN Some(num(last.arg.address) - B)
                          ELSE NoneNat

(* the address one past the end of a tag with data *)
C20_Witness ==
    /\ last.op = "memory_address_from_offset"
    /\ Len(last.arg.tag.data.val) > 0
    /\ last.arg.offset = Len(last.arg.tag.data.val)
    /\ last.ret = Some(last.arg.tag.memory_address.val + last.arg.offset)

(* C16: every TagReference that references(tag_array) returns, for a tag of
   any primary class, has a tag_index smaller than the number of tags and a
   referenced class equal to the primary class of the tag at tag_index. *)
C16_ReferencesDesignateTags ==
    (last.op = "references" /\ last.st = "ok") =>
        \A k \in 1 .. Len(last.ret) :
            /\ last.ret[k].tag_index < Len(last.arg.tag_array)
            /\ last.ret[k].tag_class
                 = last.arg.tag_array[last.ret[k].tag_index + 1].tag_class[1]

-----------------------------------------------------------------------------
(* Parsing damaged cache files: the file of LayoutA with one 32-bit field   *)
(* overwritten, one bit of a magic flipped, or its end cut off.             *)

GoodFile == RawFile(RawConfig(LayoutA, 0, SBSP_MIN, 0, 0))

MetaAt == num(word(GoodFile, \H10))
MetaLen == num(word(GoodFile, \H14))

(* file offset of the data of the tag with index k *)
DataAt(k) == MetaAt + num(word(GoodFile, MetaAt + \H28 + \H20 * k + \H14)) - BASE_ADDRESS

(* file offset of the scenario's first sbsp record *)
RecordAt == MetaAt + num(word(GoodFile, DataAt(0) + \H5A4 + 4)) - BASE_ADDRESS

(* the fields a parse reads: header, tag data header, tag array entries,
   sbsp table, bitmaps *)
DamagedFields ==
    {\H4, \H8, \H10, \H14, \H60}
    \cup {MetaAt + o : o \in {\H0, \H4, \HC, \H14, \H1C, \H20}}
    \cup {MetaAt + \H28 + \H20 * k + o : k \in {0, 2}, o \in {\H0, \H10, \H14}}
    \cup {MetaAt + \H28 + \H20 * k + \H18 : k \in {1, 2}}
    \cup {DataAt(0) + \H5A4, DataAt(0) + \H5A4 + 4, RecordAt, RecordAt + 4}
    \cup {DataAt(2) + o : o \in {\H60, \H64, \H6C + \H18, \H6C + \H1C}}

DamagedValues ==
    {ZERO32, le32(1), le32(\H10), le32(\H24), le32(\H800), le32(Len(GoodFile)),
     le32(Len(GoodFile) + 1), le32(\H7FFFFFFF), <<0, 0, 0, 128>>, NULL32,
     le32(BASE_ADDRESS + \H28), le32(BASE_ADDRESS + MetaLen - 1),
     le32(BASE_ADDRESS + MetaLen), tag_index_to_tag_id(3)}

(* byte b with bit j flipped *)
flip_bit(b, j) == IF (b \div (2 ^ j)) % 2 = 1 THEN b - 2 ^ j ELSE b + 2 ^ j

MaxCut == 2

DamagedFiles ==
    {put(GoodFile, o, v) : o \in DamagedFields, v \in DamagedValues}
    \cup {put(GoodFile, o + (j \div 8),
              <<flip_bit(GoodFile[o + (j \div 8) + 1], j % 8)>>) :
             o \in {\H0, \H7FC}, j \in 0 .. 31}
    \cup {put(GoodFile, o, [k \in 1 .. n |-> 110]) : o \in {\H20, \H40}, n \in {31, 32}}
    \cup {SubSeq(GoodFile, 1, n) : n \in \H800 - MaxCut .. \H800}
    \cup {SubSeq(GoodFile, 1, Len(GoodFile) - n) : n \in 0 .. MaxCut}

InitParse ==
    /\ cache_file \in DamagedFiles
    /\ origin = [descs |-> <<>>, principal |-> NoneNat]
    /\ map = NoMap
    /\ pc = "file"
    /\ tags = <<>>
    /\ principal_tag = NoneNat
    /\ last = NoOp
    /\ status = "ok"
    /\ steps = 0
    /\ hist = <<>>

NextParse == Parse

SpecParse == InitParse /\ [][NextParse]_vars

(* the 32-bit field at offset o of the file exceeds n *)
C17_exceeds(o, n) == ~small(word(cache_file, o)) \/ num(word(cache_file, o)) > n

C17_invalid_header ==
    \/ Len(cache_file) < 2048
    \/ word(cache_file, 0) # <<100, 97, 101, 104>>
    \/ word(cache_file, 2044) # <<116, 111, 111, 102>>
    \/ C17_exceeds(8, Len(cache_file))
    \/ C17_exceeds(8, 2147483647)
    \/ C17_exceeds(16, num(word(cache_file, 8)))
    \/ C17_exceeds(20, num(word(cache_file, 8)) - num(word(cache_file, 16)))

(* C17: parse returns an error, never a Map, when the buffer is shorter
   than 2048 bytes, when the head magic or the foot magic differs from its
   expected value in any bit, when the declared file size exceeds the buffer
   length or 0x7FFFFFFF, or when meta_offset + meta_length exceeds the
   declared file size. *)
C17_HeaderValidated ==
    (Len(hist) > 0 /\ hist[1].op = "parse" /\ C17_invalid_header) => hist[1].st = "err"

(* a parse that refused a buffer of full length with both magics and a
   declared size within the buffer, for its meta data range alone *)
C17_Witness ==
    /\ Len(hist) > 0 /\ hist[1].op = "parse" /\ hist[1].st = "err"
    /\ Len(cache_file) >= 2048
    /\ word(cache_file, 0) = <<100, 97, 101, 104>>
    /\ word(cache_file, 2044) = <<116, 111, 111, 102>>
    /\ ~C17_exceeds(8, Len(cache_file))
    /\ small(word(cache_file, 16)) /\ small(word(cache_file, 20))
    /\ num(word(cache_file, 16)) <= num(word(cache_file, 8))
    /\ num(word(cache_file, 20)) <= num(word(cache_file, 8))
    /\ C17_exceeds(20, num(word(cache_file, 8)) - num(word(cache_file, 16)))

(* C18: for every input buffer parse returns Ok(Map) or Err: a truncated
   region or an out-of-range offset, address, count or size in the input
   surfaces as Err and never as a panic. *)
C18_ParseNeverPanics ==
    (Len(hist) > 0 /\ hist[1].op = "parse") => hist[1].st \in {"ok", "err"}

-----------------------------------------------------------------------------
(* Encoding Maps whose name and build are near the limit of the header      *)
(* slots: the empty Map and the Map parsed from GoodFile, renamed.          *)

NAME_LIMIT == 31

(* n times the code point c *)
Repeated(n, c) == [k \in 1 .. n |-> c]

(* strings of 0, 1 and NAME_LIMIT - 1 .. NAME_LIMIT + 2 code points, of
   ASCII letters or of letters above 127, and one string with a code point
   ISO-8859-1 does not have *)
Names ==
    {Repeated(n, c) : n \in {0, 1} \cup (NAME_LIMIT - 1 .. NAME_LIMIT + 2), c \in {97, 233}}
    \cup {<<97, 256>>}

InitNames ==
    /\ map \in {[EmptyMap EXCEPT !.name = n, !.build = b] : n \in Names, b \in Names}
    /\ \E r \in {FailedParse("err"), from_cache_file(GoodFile)} :
          /\ tags = r.tags
          /\ principal_tag = r.principal
    /\ origin = [descs |-> <<>>, principal |-> NoneNat]
    /\ cache_file = <<>>
    /\ pc = "map"
    /\ last = NoOp
    /\ status = "ok"
    /\ steps = 0
    /\ hist = <<>>

NextNames == Encode

SpecNames == InitNames /\ [][NextNames]_vars

(* the string fits ISO-8859-1, which takes one byte per code point *)
C19_encodable(string) == \A k \in 1 .. Len(string) : string[k] <= 255

(* the 32 bytes at offset o of the file are the string followed by zeros *)
C19_slot(bytes, o, string) ==
    /\ \A k \in 1 .. Len(string) : bytes[o + k] = string[k]
    /\ \A k \in Len(string) + 1 .. 32 : bytes[o + k] = 0

(* C19: encode returns Err when the Latin-1 encoding of the map name or of
   the build string is longer than 31 bytes; it accepts a name and a build
   of up to exactly 31 bytes and writes each, followed by a zero byte,
   inside its 32-byte header slot at 0x20 and 0x40.  (Every tag array of
   SpecNames encodes, so that acceptance shows as Ok.) *)
C19_NameAndBuildLimit ==
    (Len(hist) > 0 /\ hist[1].op = "encode") =>
        /\ (C19_encodable(map.name) /\ Len(map.name) > 31) => hist[1].st = "err"
        /\ (C19_encodable(map.build) /\ Len(map.build) > 31) => hist[1].st = "err"
        /\ (/\ C19_encodable(map.name) /\ Len(map.name) <= 31
            /\ C19_encodable(map.build) /\ Len(map.build) <= 31) =>
               /\ hist[1].st = "ok"
               /\ C19_slot(hist[1].bytes, 32, map.name)
               /\ C19_slot(hist[1].bytes, 64, map.build)

(* a Map with tags whose name and build both take exactly 31 bytes, with
   letters above 127, was encoded *)
C19_Witness ==
    /\ Len(hist) > 0 /\ hist[1].op = "encode" /\ hist[1].st = "ok"
    /\ Len(tags) > 0
    /\ map.name = Repeated(31, 233) /\ map.build = Repeated(31, 233)
    /\ hist[1].bytes[32 + 31] = 233 /\ hist[1].bytes[32 + 32] = 0
    /\ hist[1].bytes[64 + 31] = 233 /\ hist[1].bytes[64 + 32] = 0

-----------------------------------------------------------------------------
(* Parsing, the tags of the Map (SpecParse)                                 *)

(* C21: in a parsed Map every tag of primary class sbsp was resolved
   through the scenario's sbsp table, so it has data and a memory address
   and no resource index, even when its implicit flag is set; only implicit
   tags of another primary class are resource-index tags without data,
   asset data or memory address. *)
C21_SbspResolvedThroughTable ==
    (Len(hist) > 0 /\ hist[1].op = "parse" /\ hist[1].st = "ok") =>
        \A k \in 1 .. Len(hist[1].tags) :
            LET t == hist[1].tags[k] IN
            /\ t.tag_class[1] = SBSP =>
                   t.data.some /\ t.memory_address.some /\ ~t.resource_index.some
            /\ ~t.data.some => (t.implicit /\ t.tag_class[1] # SBSP)
            /\ (t.implicit /\ t.tag_class[1] # SBSP) =>
                   /\ ~t.data.some /\ ~t.asset_data.some /\ ~t.memory_address.some
                   /\ t.resource_index.some

(* the tag data header of the file can be read: the cache file header is
   valid and the meta data holds the scenario identity and the tag count *)
C22_readable == ~C17_invalid_header /\ num(word(cache_file, 20)) >= 16

C22_scenario_id == word(cache_file, num(word(cache_file, 16)) + 4)
C22_tag_count == word(cache_file, num(word(cache_file, 16)) + 12)

(* C22: parse returns an error whenever the scenario identity of the tag
   data header is not null and its low 16 bits are at least the tag count
   (the tag count itself included); the principal tag of a parsed Map is an
   index below the number of its tags. *)
C22_PrincipalIndexValidated ==
    (Len(hist) > 0 /\ hist[1].op = "parse") =>
        /\ (/\ C22_readable
            /\ C22_scenario_id # NULL32
            /\ small(C22_tag_count)
            /\ lo16(C22_scenario_id) >= num(C22_tag_count)) => hist[1].st = "err"
        /\ (hist[1].st = "ok" /\ hist[1].principal.some) =>
               hist[1].principal.val < Len(hist[1].tags)

(* the 32-byte header slot at offset o of the file holds no zero byte *)
C23_unterminated(o) == \A k \in 1 .. 32 : cache_file[o + k] # 0

(* C23: the name and the build of a parsed Map take at most 31 bytes, each
   read from within its own 32-byte header slot (0x20 .. 0x40 and
   0x40 .. 0x60); a slot without a zero byte makes parse fail. *)
C23_NamesWithinSlots ==
    (Len(hist) > 0 /\ hist[1].op = "parse") =>
        /\ hist[1].st = "ok" =>
               /\ Len(hist[1].map.name) <= NAME_LIMIT
               /\ Len(hist[1].map.build) <= NAME_LIMIT
        /\ (Len(cache_file) >= 96 /\ (C23_unterminated(32) \/ C23_unterminated(64))) =>
               hist[1].st = "err"

-----------------------------------------------------------------------------
(* Editing one tag: tags holds the tag, origin the tag at the start, hist   *)
(* the calls made with the tag before and after each.                       *)

MaxEdits == 2

EDIT_BASE == BASE_ADDRESS + \H1000
EDIT_TARGET == BASE_ADDRESS + \H1100

(* the 12 bytes of a reflexive: count, address, zero *)
Window(count, address) == le32(count) \o le32(address) \o ZERO32

WeapTag(data) ==
    Tag(<<112>>, <<WEAP>> \o NO_CLASS, Some(data), NoneSeq, FALSE, NoneSeq, Some(EDIT_BASE))

(* tags of a class the heuristic scan serves: no data, data just below and
   at the size of a window, of odd and of even length; a reflexive to the
   end of the data followed by a reflexive to its start and 12 bytes; a
   window whose address lies where the tag is moved to; and a scnr with one
   pointer into its data *)
EditTags ==
    {WeapTag(Zeros(n)) : n \in {0, 11, 12, 13, 14}}
    \cup {WeapTag(Window(1, EDIT_BASE + 24) \o Window(1, EDIT_BASE + 4)
                      \o [k \in 1 .. 12 |-> 9]),
          WeapTag(Window(1, EDIT_TARGET + 4) \o Zeros(12)),
          ScnrWithSlot(EDIT_BASE + \H100)}

Edit(op, st, pre, post, offset, bytes, size, address) ==
    [op |-> op, st |-> st, pre |-> pre, post |-> post, offset |-> offset,
     bytes |-> bytes, size |-> size, address |-> address]

InitEdit ==
    /\ origin \in EditTags
    /\ tags = <<origin>>
    /\ principal_tag = NoneNat
    /\ last = NoOp
    /\ status = "ok"
    /\ steps = 0
    /\ cache_file = <<>>
    /\ map = NoMap
    /\ pc = "tag"
    /\ hist = <<>>

(* what every edit does with the result r of the call *)
Edited(op, r, offset, bytes, size, address) ==
    /\ hist' = Append(hist, Edit(op, r.st, tags[1], r.tag, offset, bytes, size, address))
    /\ tags' = <<r.tag>>
    /\ status' = Failed(r.st)
    /\ steps' = steps + 1
    /\ UNCHANGED <<principal_tag, origin, last, cache_file, map, pc>>

(* tag.insert_data(offset, &bytes) *)
InsertData ==
    /\ pc = "tag" /\ status = "ok" /\ steps < MaxEdits
    /\ \E offset \in {0, 4, 12, 24, Len(tags[1].data.val), Len(tags[1].data.val) + 1},
          bytes \in {<<7>>, <<7, 7, 7, 7>>} :
          LET k(r) == Edited("insert_data", r, offset, bytes, 0, 0)
          IN  k(insert_data(tags[1], offset, bytes))

(* tag.delete_data(offset, size) *)
DeleteData ==
    /\ pc = "tag" /\ status = "ok" /\ steps < MaxEdits
    /\ \E offset \in {0, 12, 24, 32}, size \in {0, 2, 4} :
          LET k(r) == Edited("delete_data", r, offset, <<>>, size, 0)
          IN  k(delete_data(tags[1], offset, size))

(* tag.set_memory_address(address) *)
SetMemoryAddress ==
    /\ pc = "tag" /\ status = "ok" /\ steps < MaxEdits
    /\ \E address \in {EDIT_BASE, EDIT_BASE + 8, EDIT_TARGET, BASE_ADDRESS} :
          LET k(r) == Edited("set_memory_address", r, 0, <<>>, 0, address)
          IN  k(set_memory_address(tags[1], address))

NextEdit == InsertData \/ DeleteData \/ SetMemoryAddress

SpecEdit == InitEdit /\ [][NextEdit]_vars

(* the offsets of the pointer slots discovered in the tag *)
Discovered(tag) == {p_pointers(tag).ptrs[k] : k \in 1 .. Len(p_pointers(tag).ptrs)}

(* byte j of the data d once every slot of S whose value is at least min
   has had delta added; the values are below 2^31 *)
Adjusted(d, S, min, delta, j) ==
    LET hit == {o \in S : j \in o + 1 .. o + 4 /\ num(word(d, o)) >= min}
        moved(o) == le32(num(word(d, o)) + delta)[j - o]
    IN  IF hit = {} THEN d[j] ELSE moved(CHOOSE o \in hit : TRUE)

(* C24: after insert_data(offset, bytes) with offset <= len(data) on a tag
   with base B, data is old[0 .. offset] ++ bytes ++ old[offset ..] except
   that every discovered pointer slot whose value was at least B + offset
   holds its old value plus len(bytes); the slots with smaller values, the
   other bytes and memory_address are unchanged. *)
C24_InsertShiftsPointers ==
    \A i \in 1 .. Len(hist) :
        (hist[i].op = "insert_data" /\ hist[i].st = "ok") =>
            LET pre == hist[i].pre
                post == hist[i].post
                n == Len(hist[i].bytes)
                at == hist[i].offset
                min == pre.memory_address.val + at
                S == Discovered(pre)
                old == pre.data.val
            IN  /\ at <= Len(pre.data.val)
                /\ post.memory_address = pre.memory_address
                /\ Len(post.data.val) = Len(pre.data.val) + n
                /\ \A j \in 1 .. at : post.data.val[j] = Adjusted(old, S, min, n, j)
                /\ \A j \in 1 .. n : post.data.val[at + j] = hist[i].bytes[j]
                /\ \A j \in at + 1 .. Len(pre.data.val) :
                       post.data.val[j + n] = Adjusted(old, S, min, n, j)

(* four bytes were inserted at offset 12 of the tag with two reflexives:
   the one to the end of the data was shifted, the one to its start was not *)
C24_Witness ==
    /\ Len(hist) > 0
    /\ hist[1].op = "insert_data" /\ hist[1].st = "ok"
    /\ hist[1].offset = 12 /\ Len(hist[1].bytes) = 4
    /\ Discovered(hist[1].pre) = {4, 16}
    /\ word(hist[1].pre.data.val, 4) = le32(EDIT_BASE + 24)
    /\ word(hist[1].post.data.val, 4) = le32(EDIT_BASE + 28)
    /\ word(hist[1].post.data.val, 20) = le32(EDIT_BASE + 4)

(* byte j of the data d, outside the deleted region, is as delete_data is to
   leave it: in a slot of S whose value is at least end, the byte of the
   value less size; in a slot whose value is below start, and outside every
   slot, the old byte; b is the byte found *)
Kept(d, S, start, end, size, j, b) ==
    LET hit == {o \in S : j \in o + 1 .. o + 4}
        value(o) == num(word(d, o))
        slot(o) == IF value(o) >= end THEN b = le32(value(o) - size)[j - o]
                   ELSE value(o) < start => b = d[j]
    IN  IF hit = {} THEN b = d[j] ELSE slot(CHOOSE o \in hit : TRUE)

(* C25: after delete_data(offset, size) on a tag with base B the bytes
   old[offset .. offset + size] are gone from data, every discovered pointer
   whose value was at least B + offset + size is decreased by size, and
   every discovered pointer whose value was below B + offset is unchanged
   (the pointers are those whose slot lies outside the deleted region). *)
C25_DeleteShiftsPointers ==
    \A i \in 1 .. Len(hist) :
        (hist[i].op = "delete_data" /\ hist[i].st = "ok" /\ hist[i].size > 0) =>
            LET pre == hist[i].pre
                post == hist[i].post
                size == hist[i].size
                at == hist[i].offset
                B == pre.memory_address.val
                old == pre.data.val
                S == {o \in Discovered(pre) : o + 4 <= at \/ o >= at + size}
            IN  /\ post.memory_address = pre.memory_address
                /\ Len(post.data.val) = Len(old) - size
                /\ \A j \in 1 .. at :
                       Kept(old, S, B + at, B + at + size, size, j, post.data.val[j])
                /\ \A j \in at + size + 1 .. Len(old) :
                       Kept(old, S, B + at, B + at + size, size, j, post.data.val[j - size])

(* four bytes were deleted at offset 12 of the tag with two reflexives: the
   pointer to offset 24, past the deleted region, was decreased, and the
   pointer to offset 4, whose slot moved from 16 to 12, was not *)
C25_Witness ==
    /\ Len(hist) > 0
    /\ hist[1].op = "delete_data" /\ hist[1].st = "ok"
    /\ hist[1].offset = 12 /\ hist[1].size = 4
    /\ Discovered(hist[1].pre) = {4, 16}
    /\ word(hist[1].pre.data.val, 4) = le32(EDIT_BASE + 24)
    /\ word(hist[1].post.data.val, 4) = le32(EDIT_BASE + 20)
    /\ word(hist[1].pre.data.val, 16) = le32(EDIT_BASE + 4)
    /\ word(hist[1].post.data.val, 12) = le32(EDIT_BASE + 4)

(* C28: for a tag of a class served by the heuristic scan, pointer
   discovery, and with it set_memory_address, insert_data, delete_data and
   offset_pointers, ends without reading outside data, whatever the length
   of data, below 12 and odd lengths included: a call whose own arguments
   are in range does not panic. *)
C28_ScanStaysInsideData ==
    \A i \in 1 .. Len(hist) :
        LET pre == hist[i].pre
            len == Len(pre.data.val)
        IN  pre.tag_class[1] = WEAP =>
                /\ (hist[i].op = "set_memory_address"
                      /\ hist[i].address <= 2147483647 - len) => hist[i].st = "ok"
                /\ (hist[i].op = "insert_data" /\ hist[i].offset <= len) =>
                       hist[i].st = "ok"
                /\ (hist[i].op = "delete_data"
                      /\ hist[i].offset + hist[i].size <= len) => hist[i].st = "ok"

(* C29: for a tag of a class served by the heuristic scan, at address A,
   set_memory_address(A') followed by set_memory_address(A) restores data
   byte for byte and memory_address, and the discovered pointer slots are
   the same before and after the first relocation. *)
C29_RelocationReversible ==
    (/\ Len(hist) = 2
     /\ hist[1].op = "set_memory_address" /\ hist[1].st = "ok"
     /\ hist[2].op = "set_memory_address" /\ hist[2].st = "ok"
     /\ hist[1].pre.tag_class[1] = WEAP
     /\ hist[2].address = hist[1].pre.memory_address.val) =>
        /\ hist[2].post.data = hist[1].pre.data
        /\ hist[2].post.memory_address = hist[1].pre.memory_address
        /\ p_pointers(hist[1].post) = p_pointers(hist[1].pre)

-----------------------------------------------------------------------------
(* Encoding, the resource and sbsp streams of the file (SpecMap)            *)

(* offsets, in the data of a bitm tag at address base, of the elements of
   its bitmaps reflexive that are not external (+0xF bit 0 clear) *)
C26_elements(data, base) ==
    {o \in {num(word(data, \H64)) - base + (i - 1) * \H30 :
                i \in 1 .. num(word(data, \H60))} : data[o + \HF + 1] % 2 = 0}

(* file offset, in the encoded file, of the data of the tag with index t *)
C26_data_at(bytes, t) ==
    num(word(bytes, \H10))
        + num(word(bytes, num(word(bytes, \H10)) + \H28 + \H20 * t + \H14))
        - BASE_ADDRESS

(* the element at offset o of the tag t: the bytes of the file at its
   rewritten data offset are its slice of the asset data *)
C26_written(bytes, tag, t, o) ==
    LET data_offset == num(word(bytes, C26_data_at(bytes, t) + o + \H18))
        data_size == num(word(bytes, C26_data_at(bytes, t) + o + \H1C))
        asset_offset == num(word(tag.data.val, o + \H18))
    IN  /\ data_size = num(word(tag.data.val, o + \H1C))
        /\ data_offset + data_size <= Len(bytes)
        /\ SubSeq(bytes, data_offset + 1, data_offset + data_size)
             = SubSeq(tag.asset_data.val, asset_offset + 1, asset_offset + data_size)

(* C26: in the output of encode, for every bitmap element of a bitm tag
   that is not external, the rewritten data offset is the position in the
   file at which the element's bytes were written: the bytes of the output
   from data_offset to data_offset + data_size are the element's slice of
   the tag's asset data, whatever the total length of the sbsp data. *)
C26_ResourceOffsetsDesignateData ==
    \A k \in 1 .. Len(hist) :
        (hist[k].op = "encode" /\ hist[k].st = "ok") =>
            \A t \in 1 .. Len(hist[k].tags) :
                LET tag == hist[k].tags[t] IN
                (tag.tag_class[1] = BITM /\ tag.data.some /\ tag.asset_data.some) =>
                    \A o \in C26_elements(tag.data.val, tag.memory_address.val) :
                        C26_written(hist[k].bytes, tag, t - 1, o)

(* file offsets, in the encoded file, of the records of the sbsp table of
   the scenario with index p *)
C27_records(bytes, p) ==
    {num(word(bytes, \H10)) + num(word(bytes, C26_data_at(bytes, p) + \H5A4 + 4))
         - BASE_ADDRESS + (i - 1) * 32 :
        i \in 1 .. num(word(bytes, C26_data_at(bytes, p) + \H5A4))}

(* the record at r designates the tag with index t and the bytes data *)
C27_designates(bytes, r, t, data) ==
    /\ word(bytes, r + \H1C) = tag_index_to_tag_id(t)
    /\ num(word(bytes, r + 4)) = Len(data)
    /\ num(word(bytes, r)) + Len(data) <= Len(bytes)
    /\ SubSeq(bytes, num(word(bytes, r)) + 1, num(word(bytes, r)) + Len(data)) = data

(* C27: in the output of encode, for each tag of primary class sbsp that
   has data, the sbsp table of the principal scenario (the reflexive at
   +0x5A4 of its data) holds a record with the identity of that tag whose
   file offset and size designate exactly the bytes of the tag's data as
   written into the file. *)
C27_SbspTableDesignatesData ==
    \A k \in 1 .. Len(hist) :
        (hist[k].op = "encode" /\ hist[k].st = "ok") =>
            \A t \in 1 .. Len(hist[k].tags) :
                LET tag == hist[k].tags[t] IN
                (tag.tag_class[1] = SBSP /\ tag.data.some) =>
                    /\ hist[k].principal.some
                    /\ \E r \in C27_records(hist[k].bytes, hist[k].principal.val) :
                           C27_designates(hist[k].bytes, r, t - 1, tag.data.val)

-----------------------------------------------------------------------------
(* Pruning twice (SpecArr)                                                  *)

(* C30: remove_dead_tags is idempotent: a second call right after a first
   one removes no tag and changes no tag's data, every tag the first call
   kept being still a root or reachable from one. *)
C30_RemoveDeadTagsIdempotent ==
    [][(/\ last.op = "remove_dead_tags" /\ last.st = "ok"
        /\ last'.op = "remove_dead_tags" /\ steps' = steps + 1) =>
           /\ last'.st = "ok"
           /\ tags' = tags]_vars

====
